---- MODULE Spec2Model ----
(***************************************************************************)
(* Model of team-capacity-planner: the sprint predictor (src/predictor.py  *)
(* with the JiraTicket / Sprint records of src/integrations/jira.py) and   *)
(* the workload analyzer (src/analyzer.py).                                *)
(*                                                                         *)
(* Numbers.  The program computes in Python floats.  The model computes    *)
(* the same expressions exactly: a rational is a record [n, d] in lowest   *)
(* terms, and a value that went through math.sqrt is a record [a, b, c]    *)
(* standing for a + b * sqrt(c).  Comparisons are decided exactly.         *)
(*                                                                         *)
(* Strings.  A str is a sequence of one-character strings, so that         *)
(* str.lower() and the `in` substring test are computed, not assumed.      *)
(***************************************************************************)
EXTENDS Integers, Sequences, FiniteSets, TLC

\* Optional[T]: None is the empty sequence, a present value x is <<x>>
NoneVal == <<>>
Some(x) == <<x>>
IsNone(o) == o = <<>>
Val(o) == o[1]

(***************************************************************************)
(* Exact rationals                                                         *)
(***************************************************************************)
Abs(x) == IF x < 0 THEN -x ELSE x

RECURSIVE GCD(_, _)
GCD(a, b) == IF b = 0 THEN a ELSE GCD(b, a % b)

Rat(n, d) ==
    LET g == GCD(Abs(n), Abs(d))
        s == IF d < 0 THEN -1 ELSE 1
    IN  [n |-> s * (n \div g), d |-> s * (d \div g)]

RatInt(i) == [n |-> i, d |-> 1]
RatAdd(x, y) == Rat(x.n * y.d + y.n * x.d, x.d * y.d)
RatNeg(x) == [n |-> -x.n, d |-> x.d]
RatSub(x, y) == RatAdd(x, RatNeg(y))
RatMul(x, y) ==
    LET g1 == GCD(Abs(x.n), y.d)
        g2 == GCD(Abs(y.n), x.d)
    IN  IF x.n = 0 \/ y.n = 0 THEN RatInt(0)
        ELSE [n |-> (x.n \div g1) * (y.n \div g2), d |-> (x.d \div g2) * (y.d \div g1)]
RatDiv(x, y) == RatMul(x, Rat(y.d, y.n))
RatSign(x) == IF x.n > 0 THEN 1 ELSE IF x.n < 0 THEN -1 ELSE 0
RatLt(x, y) == x.n * y.d < y.n * x.d
RatLe(x, y) == x.n * y.d <= y.n * x.d
RatMin(x, y) == IF RatLt(y, x) THEN y ELSE x
RatMax(x, y) == IF RatLt(x, y) THEN y ELSE x

(***************************************************************************)
(* Values of the form a + b * sqrt(c): what math.sqrt and ** 0.5 produce   *)
(***************************************************************************)
Real(a) == [a |-> a, b |-> RatInt(0), c |-> RatInt(0)]
RealInt(i) == Real(RatInt(i))
Sqrt(v) == IF v.n = 0 THEN RealInt(0) ELSE [a |-> RatInt(0), b |-> RatInt(1), c |-> v]
\* rational x divided by a sqrt value s = s.b * sqrt(s.c), s # 0
RatDivSqrt(x, s) ==
    IF x.n = 0 THEN RealInt(0)
    ELSE [a |-> RatInt(0), b |-> RatDiv(x, RatMul(s.b, s.c)), c |-> s.c]
RealScale(k, r) ==
    IF k.n = 0 \/ r.b.n = 0 THEN Real(RatMul(k, r.a))
    ELSE [a |-> RatMul(k, r.a), b |-> RatMul(k, r.b), c |-> r.c]
\* r1 - r2; both share the radicand, or one of them is rational
RealSub(r1, r2) ==
    LET b == RatSub(r1.b, r2.b)
        c == IF r1.b.n # 0 THEN r1.c ELSE r2.c
    IN  IF b.n = 0 THEN Real(RatSub(r1.a, r2.a))
        ELSE [a |-> RatSub(r1.a, r2.a), b |-> b, c |-> c]
RealSign(r) ==
    LET sa == RatSign(r.a)
        sb == RatSign(r.b)
        a2 == RatMul(r.a, r.a)
        b2c == RatMul(r.b, RatMul(r.b, r.c))
    IN  IF sb = 0 THEN sa
        ELSE IF sa = 0 \/ sa = sb THEN sb
        ELSE IF RatLt(b2c, a2) THEN sa
        ELSE IF RatLt(a2, b2c) THEN sb
        ELSE 0
RealLt(r1, r2) == RealSign(RealSub(r1, r2)) < 0
RealLe(r1, r2) == RealSign(RealSub(r1, r2)) <= 0
RealEq(r1, r2) == RealSign(RealSub(r1, r2)) = 0
RealMin(r1, r2) == IF RealLt(r2, r1) THEN r2 ELSE r1
RealMax(r1, r2) == IF RealLt(r1, r2) THEN r2 ELSE r1

(***************************************************************************)
(* Strings as character sequences                                          *)
(***************************************************************************)
UpperChars == <<"A","B","C","D","E","F","G","H","I","J","K","L","M",
                "N","O","P","Q","R","S","T","U","V","W","X","Y","Z">>
LowerChars == <<"a","b","c","d","e","f","g","h","i","j","k","l","m",
                "n","o","p","q","r","s","t","u","v","w","x","y","z">>
LowerOf == [i \in DOMAIN UpperChars |-> LowerChars[i]]
UpperIndex == [ch \in {UpperChars[i] : i \in DOMAIN UpperChars} |->
                  CHOOSE i \in DOMAIN UpperChars : UpperChars[i] = ch]
LowerChar(ch) == IF ch \in DOMAIN UpperIndex THEN LowerOf[UpperIndex[ch]] ELSE ch
Lower(s) == [i \in DOMAIN s |-> LowerChar(s[i])]
\* Python `sub in s` for two str
Contains(s, sub) ==
    \E k \in 0..(Len(s) - Len(sub)) :
        \A i \in 1..Len(sub) : s[k + i] = sub[i]

RECURSIVE SumSeq(_)
SumSeq(s) == IF s = <<>> THEN 0 ELSE Head(s) + SumSeq(Tail(s))

(***************************************************************************)
(* Python floats (IEEE 754 binary64) where rounding decides the result.    *)
(* A natural number of any size is a little-endian sequence of limbs, its  *)
(* digits in base LimbBase, with no leading zero; a float is               *)
(* sign * mantissa * 2^exponent with a mantissa of exactly MantissaBits    *)
(* bits, or the empty mantissa for 0.  Values stay far from the subnormal  *)
(* and the overflow range.                                                 *)
(***************************************************************************)
MantissaBits == 53
LimbBits == 13
LimbBase == 2 ^ LimbBits

RECURSIVE BTrim(_)
BTrim(a) ==
    IF a = <<>> THEN <<>>
    ELSE IF a[Len(a)] = 0 THEN BTrim(SubSeq(a, 1, Len(a) - 1))
    ELSE a

RECURSIVE BOfInt(_)
BOfInt(n) == IF n = 0 THEN <<>> ELSE <<n % LimbBase>> \o BOfInt(n \div LimbBase)

RECURSIVE BToInt(_)
BToInt(a) == IF a = <<>> THEN 0 ELSE Head(a) + LimbBase * BToInt(Tail(a))

BLimb(a, i) == IF i <= Len(a) THEN a[i] ELSE 0

\* the number of bits of a limb
LimbLen(t) == IF t = 0 THEN 0 ELSE CHOOSE k \in 1..LimbBits : 2 ^ (k - 1) <= t /\ t < 2 ^ k

\* the number of bits of a
BLen(a) == IF a = <<>> THEN 0 ELSE LimbBits * (Len(a) - 1) + LimbLen(a[Len(a)])

\* bit i of a, the lowest being bit 1
BBit(a, i) == (BLimb(a, (i - 1) \div LimbBits + 1) \div 2 ^ ((i - 1) % LimbBits)) % 2

RECURSIVE BAddFrom(_, _, _, _)
BAddFrom(a, b, i, carry) ==
    IF i > Len(a) /\ i > Len(b) THEN (IF carry = 1 THEN <<1>> ELSE <<>>)
    ELSE LET t == BLimb(a, i) + BLimb(b, i) + carry
         IN  <<t % LimbBase>> \o BAddFrom(a, b, i + 1, t \div LimbBase)

BAdd(a, b) == BAddFrom(a, b, 1, 0)

RECURSIVE BSubFrom(_, _, _, _)
BSubFrom(a, b, i, borrow) ==
    IF i > Len(a) THEN <<>>
    ELSE LET t == BLimb(a, i) - BLimb(b, i) - borrow
         IN  <<t % LimbBase>> \o BSubFrom(a, b, i + 1, IF t < 0 THEN 1 ELSE 0)

\* a - b for a >= b
BSub(a, b) == BTrim(BSubFrom(a, b, 1, 0))

RECURSIVE BCmpFrom(_, _, _)
BCmpFrom(a, b, i) ==
    IF i = 0 THEN 0
    ELSE IF a[i] > b[i] THEN 1
    ELSE IF a[i] < b[i] THEN -1
    ELSE BCmpFrom(a, b, i - 1)

\* -1, 0 or 1 as a is below, equal to or above b
BCmp(a, b) ==
    IF Len(a) > Len(b) THEN 1
    ELSE IF Len(a) < Len(b) THEN -1
    ELSE BCmpFrom(a, b, Len(a))

RECURSIVE BMulSmallFrom(_, _, _, _)
BMulSmallFrom(a, k, i, carry) ==
    IF i > Len(a) THEN BOfInt(carry)
    ELSE LET t == a[i] * k + carry
         IN  <<t % LimbBase>> \o BMulSmallFrom(a, k, i + 1, t \div LimbBase)

\* a * k for 0 <= k <= LimbBase
BMulSmall(a, k) == BTrim(BMulSmallFrom(a, k, 1, 0))

BShiftLimbs(a, n) == IF a = <<>> THEN <<>> ELSE [i \in 1..n |-> 0] \o a

RECURSIVE BMul(_, _)
BMul(a, b) ==
    IF a = <<>> \/ b = <<>> THEN <<>>
    ELSE BAdd(BMulSmall(a, Head(b)), BShiftLimbs(BMul(a, Tail(b)), 1))

RECURSIVE BDivFrom(_, _, _, _)
\* long division of the limbs i..1 of a by n, r carried in; n < 2^17
BDivFrom(a, n, i, r) ==
    IF i = 0 THEN [q |-> <<>>, r |-> r]
    ELSE LET t == LimbBase * r + a[i]
             rec == BDivFrom(a, n, i - 1, t % n)
         IN  [q |-> rec.q \o <<t \div n>>, r |-> rec.r]

BDivSmall(a, n) ==
    LET d == BDivFrom(a, n, Len(a), 0) IN [q |-> BTrim(d.q), r |-> d.r]

\* a * 2^k
BShl(a, k) == BShiftLimbs(BMulSmall(a, 2 ^ (k % LimbBits)), k \div LimbBits)

\* a \div 2^k
BShr(a, k) ==
    IF k \div LimbBits >= Len(a) THEN <<>>
    ELSE BDivSmall(SubSeq(a, k \div LimbBits + 1, Len(a)), 2 ^ (k % LimbBits)).q

\* whether one of the k lowest bits of a is set
BAnyLow(a, k) ==
    \/ \E i \in 1..(k \div LimbBits) : BLimb(a, i) # 0
    \/ BLimb(a, k \div LimbBits + 1) % 2 ^ (k % LimbBits) # 0

\* bits 4i-3 .. 4i of a as a number
BNibble(a, i) ==
    BBit(a, 4 * i - 3) + 2 * BBit(a, 4 * i - 2) + 4 * BBit(a, 4 * i - 1) + 8 * BBit(a, 4 * i)

RECURSIVE BSqrtFrom(_, _, _, _)
\* digit-by-digit square root in base 4: i groups of four bits of a are
\* still to be brought down to the root and the remainder so far
BSqrtFrom(a, i, root, rem) ==
    IF i = 0 THEN [root |-> root, rem |-> rem]
    ELSE LET r16 == BAdd(BMulSmall(rem, 16), BOfInt(BNibble(a, i)))
             t1 == BAdd(BMulSmall(root, 8), <<1>>)
             t2 == BAdd(BMulSmall(root, 16), <<4>>)
             t3 == BAdd(BMulSmall(root, 24), <<9>>)
             r4 == BMulSmall(root, 4)
         IN  IF BCmp(r16, t3) >= 0 THEN BSqrtFrom(a, i - 1, BAdd(r4, <<3>>), BSub(r16, t3))
             ELSE IF BCmp(r16, t2) >= 0 THEN BSqrtFrom(a, i - 1, BAdd(r4, <<2>>), BSub(r16, t2))
             ELSE IF BCmp(r16, t1) >= 0 THEN BSqrtFrom(a, i - 1, BAdd(r4, <<1>>), BSub(r16, t1))
             ELSE BSqrtFrom(a, i - 1, r4, r16)

\* the integer square root of a and what is left over
BSqrt(a) == BSqrtFrom(a, (BLen(a) + 3) \div 4, <<>>, <<>>)

FZero == [s |-> 1, m |-> <<>>, e |-> 0]
FIsZero(x) == x.m = <<>>

\* sign * M * 2^e cut to MantissaBits bits, the cut-off part dropped
FDown(s, M, e) ==
    IF M = <<>> THEN FZero
    ELSE IF BLen(M) <= MantissaBits
         THEN [s |-> s, m |-> BShl(M, MantissaBits - BLen(M)),
               e |-> e - (MantissaBits - BLen(M))]
    ELSE [s |-> s, m |-> BShr(M, BLen(M) - MantissaBits), e |-> e + (BLen(M) - MantissaBits)]

\* the next float away from zero
FNextAway(x) ==
    LET m1 == BAdd(x.m, <<1>>)
    IN  IF BLen(m1) > MantissaBits THEN [x EXCEPT !.m = BShr(m1, 1), !.e = @ + 1]
        ELSE [x EXCEPT !.m = m1]

\* whether sign * M * 2^e, plus a non-zero rest below it if sticky, is a float
FExact(M, sticky) ==
    /\ ~sticky
    /\ BLen(M) > MantissaBits => ~BAnyLow(M, BLen(M) - MantissaBits)

\* round to nearest, ties to even
FRound(s, M, e, sticky) ==
    IF FExact(M, sticky) THEN FDown(s, M, e)
    ELSE LET k == BLen(M) - MantissaBits
             down == FDown(s, M, e)
             above_half == BBit(M, k) = 1 /\ (sticky \/ BAnyLow(M, k - 1))
             at_half == BBit(M, k) = 1 /\ ~sticky /\ ~BAnyLow(M, k - 1)
         IN  IF above_half \/ (at_half /\ BBit(down.m, 1) = 1) THEN FNextAway(down) ELSE down

\* the results of a library function that is within one unit in the last
\* place: the exact value when it is a float, else either neighbour
FFaithful(s, M, e, sticky) ==
    IF FExact(M, sticky) THEN {FDown(s, M, e)}
    ELSE {FDown(s, M, e), FNextAway(FDown(s, M, e))}

FOfInt(i) == FRound(IF i < 0 THEN -1 ELSE 1, BOfInt(IF i < 0 THEN -i ELSE i), 0, FALSE)

\* the float of a rational whose denominator is 1 or 2
FOfRat(x) == LET f == FOfInt(x.n) IN IF x.d = 2 /\ ~FIsZero(f) THEN [f EXCEPT !.e = @ - 1] ELSE f

FNeg(x) == IF FIsZero(x) THEN x ELSE [x EXCEPT !.s = -@]
FAbs(x) == [x EXCEPT !.s = 1]

FAdd(x, y) ==
    IF FIsZero(x) THEN y
    ELSE IF FIsZero(y) THEN x
    ELSE LET emin == IF x.e < y.e THEN x.e ELSE y.e
             X == BShl(x.m, x.e - emin)
             Y == BShl(y.m, y.e - emin)
         IN  IF x.s = y.s THEN FRound(x.s, BAdd(X, Y), emin, FALSE)
             ELSE IF BCmp(X, Y) = 0 THEN FZero
             ELSE IF BCmp(X, Y) > 0 THEN FRound(x.s, BSub(X, Y), emin, FALSE)
             ELSE FRound(y.s, BSub(Y, X), emin, FALSE)

FSub(x, y) == FAdd(x, FNeg(y))

\* -1, 0 or 1 as x is below, equal to or above y
FCmp(x, y) ==
    LET d == FSub(x, y) IN IF FIsZero(d) THEN 0 ELSE d.s

FLt(x, y) == FCmp(x, y) < 0

FMul(x, y) ==
    IF FIsZero(x) \/ FIsZero(y) THEN FZero
    ELSE FRound(x.s * y.s, BMul(x.m, y.m), x.e + y.e, FALSE)

\* the number of zero bits at the low end of a non-zero mantissa
TrailingZeros(m) ==
    (CHOOSE i \in 1..BLen(m) : BBit(m, i) = 1 /\ \A j \in 1..(i - 1) : BBit(m, j) = 0) - 1

\* x / y for a divisor that is a small whole number times a power of two
FDiv(x, y) ==
    IF FIsZero(x) THEN FZero
    ELSE LET tz == TrailingZeros(y.m)
             n == BToInt(BShr(y.m, tz))
             shift == BLen(BOfInt(n)) + 3
             d == BDivSmall(BShl(x.m, shift), n)
         IN  FRound(x.s * y.s, d.q, x.e - shift - (y.e + tz), d.r # 0)

\* x ** 2 of the C library
FSquare(x) ==
    IF FIsZero(x) THEN {FZero}
    ELSE FFaithful(1, BMul(x.m, x.m), 2 * x.e, FALSE)

\* x ** 0.5 of the C library, for x >= 0
FPowHalf(x) ==
    IF FIsZero(x) THEN {FZero}
    ELSE LET shift == IF (x.e - MantissaBits) % 2 = 0
                      THEN MantissaBits + 6 ELSE MantissaBits + 5
             r == BSqrt(BShl(x.m, shift))
         IN  FFaithful(1, r.root, (x.e - shift) \div 2, r.rem # <<>>)

(***************************************************************************)
(* src/integrations/jira.py: JiraTicket and Sprint                         *)
(***************************************************************************)
\* A ticket is [key, status, assignee, story_points, labels]; the fields
\* predict never reads (summary, issue_type, priority, ...) are left out.
JiraTicket(key, status, assignee, story_points, labels) ==
    [key |-> key, status |-> status, assignee |-> assignee,
     story_points |-> story_points, labels |-> labels]

S_done == <<"d","o","n","e">>
S_closed == <<"c","l","o","s","e","d">>
S_resolved == <<"r","e","s","o","l","v","e","d">>
S_progress == <<"p","r","o","g","r","e","s","s">>
S_blocked == <<"b","l","o","c","k","e","d">>
S_to_do == <<"t","o"," ","d","o">>
S_backlog == <<"b","a","c","k","l","o","g">>
S_open == <<"o","p","e","n">>
S_Done == <<"D","o","n","e">>
S_In_Progress == <<"I","n"," ","P","r","o","g","r","e","s","s">>
S_To_Do == <<"T","o"," ","D","o">>
S_Open == <<"O","p","e","n">>
S_Alice == <<"A","l","i","c","e">>
S_Bob == <<"B","o","b">>

is_done(t) == Lower(t.status) \in {S_done, S_closed, S_resolved}
is_in_progress(t) == Contains(Lower(t.status), S_progress)
is_blocked(t) ==
    \/ Contains(Lower(t.status), S_blocked)
    \/ \E i \in DOMAIN t.labels : Lower(t.labels[i]) = S_blocked

\* datetimes are counted in ticks; timedelta.days is the floor of a
\* difference in whole days
TicksPerDay == 2
\* the length in days of the dated sprints
SprintLength == 10
Days(delta) == delta \div TicksPerDay

Sprint(id, start_date, end_date) ==
    [id |-> id, start_date |-> start_date, end_date |-> end_date]

days_remaining(sprint, clock) ==
    IF IsNone(sprint.end_date) THEN 0
    ELSE LET d == Days(Val(sprint.end_date) - clock) IN IF d > 0 THEN d ELSE 0

\* what a call did: the value it returned, or the exception it raised
Returned(value) == [raised |-> "", value |-> value]
Raised(exception) == [raised |-> exception, value |-> NoneVal]

\* Sprint.progress_percentage at the clock reading `clock`; int / 0 raises
progress_percentage(sprint, clock) ==
    IF IsNone(sprint.start_date) \/ IsNone(sprint.end_date) THEN Returned(RatInt(0))
    ELSE LET total == Days(Val(sprint.end_date) - Val(sprint.start_date))
             elapsed == Days(clock - Val(sprint.start_date))
         IN  IF total = 0 THEN Raised("ZeroDivisionError")
             ELSE Returned(RatMin(RatInt(100),
                                  RatMax(RatInt(0),
                                         RatMul(Rat(elapsed, total), RatInt(100)))))

\* t.story_points or 0
PointsOr0(t) == IF IsNone(t.story_points) THEN 0 ELSE Val(t.story_points)

RECURSIVE SumPoints(_)
SumPoints(ts) == IF ts = <<>> THEN 0 ELSE PointsOr0(Head(ts)) + SumPoints(Tail(ts))

(***************************************************************************)
(* src/predictor.py                                                        *)
(***************************************************************************)
RiskLevelOfScore(risk_score) ==
    IF risk_score >= 80 THEN "CRITICAL"
    ELSE IF risk_score >= 60 THEN "HIGH"
    ELSE IF risk_score >= 40 THEN "MEDIUM"
    ELSE "LOW"

SeqMin(s) == CHOOSE x \in {s[i] : i \in DOMAIN s} : \A j \in DOMAIN s : x <= s[j]
SeqMax(s) == CHOOSE x \in {s[i] : i \in DOMAIN s} : \A j \in DOMAIN s : x >= s[j]

RECURSIVE InsertAsc(_, _)
InsertAsc(s, x) ==
    IF s = <<>> THEN <<x>>
    ELSE IF x < Head(s) THEN <<x>> \o s
    ELSE <<Head(s)>> \o InsertAsc(Tail(s), x)
RECURSIVE SortedAsc(_)
SortedAsc(s) == IF s = <<>> THEN <<>> ELSE InsertAsc(SortedAsc(Tail(s)), Head(s))

\* the trend of a history of n >= 4 sprints
\* the float literals 1.1 and 0.9
Float_1_1 == FDiv(FOfInt(11), FOfInt(10))
Float_0_9 == FDiv(FOfInt(9), FOfInt(10))

\* the trend of n >= 4 records, in the float arithmetic of the code
TrendOf(points) ==
    LET n == Len(points)
        h == n \div 2
        first_half_avg == FDiv(FOfInt(SumSeq(SubSeq(points, 1, h))), FOfInt(h))
        second_half_avg == FDiv(FOfInt(SumSeq(SubSeq(points, h + 1, n))), FOfInt(n - h))
    IN  IF FLt(FMul(first_half_avg, Float_1_1), second_half_avg) THEN "improving"
        ELSE IF FLt(second_half_avg, FMul(first_half_avg, Float_0_9)) THEN "declining"
        ELSE "stable"

\* velocity_history is the sequence of its records' completed_points
calculate_velocity_stats(velocity_history) ==
    IF velocity_history = <<>>
    THEN [average |-> RatInt(0), median |-> RatInt(0), std_dev |-> RealInt(0),
          min |-> 0, max |-> 0, trend |-> "unknown", sprints_analyzed |-> 0]
    ELSE
    LET points == velocity_history
        n == Len(points)
        average == Rat(SumSeq(points), n)
        sorted_points == SortedAsc(points)
        median == IF n % 2 = 1 THEN RatInt(sorted_points[(n \div 2) + 1])
                  ELSE Rat(sorted_points[n \div 2] + sorted_points[(n \div 2) + 1], 2)
        \* sum((p - average) ** 2) / n  =  (n * sum(p*p) - sum(p)**2) / n**2
        variance == Rat(n * SumSeq([i \in 1..n |-> points[i] * points[i]])
                          - SumSeq(points) * SumSeq(points), n * n)
    IN  [average |-> average, median |-> median, std_dev |-> Sqrt(variance),
         min |-> SeqMin(points), max |-> SeqMax(points),
         trend |-> IF n >= 4 THEN TrendOf(points) ELSE "unknown",
         sprints_analyzed |-> n]

Factor(text, args) == [text |-> text, args |-> args]

NotStartedStatuses == {S_to_do, S_backlog, S_open}
DescopeStatuses == {S_to_do, S_backlog}

\* the recommendation of a ticket whose risk_score is >= 60
RecommendationOf(ticket) ==
    IF is_blocked(ticket) THEN "Unblock immediately or move to next sprint"
    ELSE IF IsNone(ticket.assignee) \/ Val(ticket.assignee) = <<>>
         THEN "Assign to team member with capacity"
    ELSE IF Lower(ticket.status) \in DescopeStatuses
         THEN "Consider descoping to next sprint"
    ELSE "Monitor closely, may need descoping"

\* a faulty variant: the sum of the rules is returned as it is
CapScore_Uncapped(risk_score) == risk_score

\* min(100, risk_score)
CapScore(risk_score) == IF risk_score > 100 THEN 100 ELSE risk_score

assess_ticket_risk(ticket, days_left, sprint_progress) ==
    LET not_started == Lower(ticket.status) \in NotStartedStatuses
        late50 == not_started /\ RatLt(Rat(1, 2), sprint_progress)
        late75 == not_started /\ RatLt(Rat(3, 4), sprint_progress)
        large == ~IsNone(ticket.story_points) /\ Val(ticket.story_points) # 0
                 /\ Val(ticket.story_points) >= 5
        large3 == large /\ days_left < 3
        large5 == large /\ ~(days_left < 3) /\ days_left < 5
        blocked == is_blocked(ticket)
        unassigned == IsNone(ticket.assignee) \/ Val(ticket.assignee) = <<>>
        risk_score == (IF late50 THEN 40 ELSE 0) + (IF late75 THEN 20 ELSE 0)
                      + (IF large3 THEN 30 ELSE 0) + (IF large5 THEN 15 ELSE 0)
                      + (IF blocked THEN 50 ELSE 0) + (IF unassigned THEN 20 ELSE 0)
        risk_factors ==
            (IF late50 THEN <<Factor("Not started, sprint >50% complete", <<>>)>> ELSE <<>>)
            \o (IF late75 THEN <<Factor("Not started, sprint >75% complete", <<>>)>> ELSE <<>>)
            \o (IF large3 THEN <<Factor("Large ticket ({} points) with {} days left",
                                        <<Val(ticket.story_points), days_left>>)>> ELSE <<>>)
            \o (IF large5 THEN <<Factor("Large ticket with limited time", <<>>)>> ELSE <<>>)
            \o (IF blocked THEN <<Factor("Ticket is blocked", <<>>)>> ELSE <<>>)
            \o (IF unassigned THEN <<Factor("No assignee", <<>>)>> ELSE <<>>)
    IN  [ticket_key |-> ticket.key,
         story_points |-> PointsOr0(ticket),
         status |-> ticket.status,
         risk_score |-> CapScore(risk_score),
         risk_factors |-> risk_factors,
         recommendation |-> IF risk_score >= 60 THEN Some(RecommendationOf(ticket))
                            ELSE NoneVal]

RECURSIVE InsertRiskDesc(_, _)
\* x goes after every entry whose score is not lower: list.sort is stable,
\* also with reverse=True
InsertRiskDesc(s, x) ==
    IF s = <<>> THEN <<x>>
    ELSE IF Head(s).risk_score >= x.risk_score THEN <<Head(s)>> \o InsertRiskDesc(Tail(s), x)
    ELSE <<x>> \o s
\* a faulty variant: the risks stay in ticket order
SortRisksDesc_Unsorted(s) == s

RECURSIVE SortRisksDesc(_)
SortRisksDesc(s) ==
    IF s = <<>> THEN <<>>
    ELSE InsertRiskDesc(SortRisksDesc(SubSeq(s, 1, Len(s) - 1)), s[Len(s)])

\* "blocked" in " ".join(risk_factors).lower(): of the factor texts only
\* "Ticket is blocked" contains it
MentionsBlocked(risk) == \E i \in DOMAIN risk.risk_factors :
    risk.risk_factors[i].text = "Ticket is blocked"
HasNoAssigneeFactor(risk) == \E i \in DOMAIN risk.risk_factors :
    risk.risk_factors[i] = Factor("No assignee", <<>>)

\* the risks of the tickets that are not done, in ticket order, scoring >= 40
AtRiskOf(tickets, days_left, sprint_progress) ==
    LET open_tickets == SelectSeq(tickets, LAMBDA t : ~is_done(t))
        risks == [i \in DOMAIN open_tickets |->
                     assess_ticket_risk(open_tickets[i], days_left, sprint_progress)]
    IN  SelectSeq(risks, LAMBDA r : r.risk_score >= 40)

\* a faulty variant: one HIGH-or-CRITICAL ticket is enough for HIGH
OverallRiskLevel_OneHighTicket(completion_probability, at_risk_tickets) ==
    LET n == Len(at_risk_tickets)
        level(i) == RiskLevelOfScore(at_risk_tickets[i].risk_score)
    IN  IF RealLt(completion_probability, RealInt(50))
           \/ \E i \in 1..n : level(i) = "CRITICAL"
        THEN "CRITICAL"
        ELSE IF RealLt(completion_probability, RealInt(70))
                \/ \E i \in 1..n : level(i) \in {"HIGH", "CRITICAL"}
        THEN "HIGH"
        ELSE IF RealLt(completion_probability, RealInt(85)) THEN "MEDIUM"
        ELSE "LOW"

OverallRiskLevel(completion_probability, at_risk_tickets) ==
    LET n == Len(at_risk_tickets)
        level(i) == RiskLevelOfScore(at_risk_tickets[i].risk_score)
    IN  IF RealLt(completion_probability, RealInt(50))
           \/ \E i \in 1..n : level(i) = "CRITICAL"
        THEN "CRITICAL"
        ELSE IF RealLt(completion_probability, RealInt(70))
                \/ Cardinality({i \in 1..n : level(i) \in {"HIGH", "CRITICAL"}}) >= 2
        THEN "HIGH"
        ELSE IF RealLt(completion_probability, RealInt(85)) THEN "MEDIUM"
        ELSE "LOW"

RecommendationsOf(risk_level, at_risk_tickets, trend) ==
    LET n == Len(at_risk_tickets)
        blocked == Cardinality({i \in 1..n : MentionsBlocked(at_risk_tickets[i])})
        unassigned == Cardinality({i \in 1..n : HasNoAssigneeFactor(at_risk_tickets[i])})
    IN  (IF risk_level \in {"HIGH", "CRITICAL"}
         THEN (IF n > 0 THEN <<Factor("Review {} at-risk tickets for descoping", <<n>>)>>
               ELSE <<>>)
              \o (IF blocked > 0
                  THEN <<Factor("Unblock {} blocked tickets immediately", <<blocked>>)>>
                  ELSE <<>>)
              \o (IF unassigned > 0
                  THEN <<Factor("Assign {} unassigned tickets", <<unassigned>>)>>
                  ELSE <<>>)
         ELSE <<>>)
        \o (IF trend = "declining"
            THEN <<Factor("Team velocity is declining - investigate root cause", <<>>)>>
            ELSE <<>>)

\* the history regime is used from this many past sprints on
MinSprintsForHistory == 3
\* "Assume 10-day sprint"
AssumedSprintDays == 10

\* a faulty variant: one more past sprint is needed before the history is trusted
UseHistory_OffByOne(velocity_stats) ==
    velocity_stats.sprints_analyzed > MinSprintsForHistory

\* velocity_stats.sprints_analyzed >= 3
UseHistory(velocity_stats) ==
    velocity_stats.sprints_analyzed >= MinSprintsForHistory

\* completion_probability of the historical-velocity branch
HistoryProbability(remaining_points, expected_points, std_dev) ==
    IF RealSign(std_dev) > 0
    THEN LET z_score == RatDivSqrt(RatSub(RatInt(remaining_points), expected_points), std_dev)
         IN  RealMax(RealInt(0),
                     RealMin(RealInt(100),
                             RealSub(RealInt(50), RealScale(RatInt(25), z_score))))
    ELSE RealInt(50)

\* completion_probability of the linear-projection branch
LinearProbability(predicted_completion, total_points, sprint_progress) ==
    IF RatLt(RatInt(0), sprint_progress)
    THEN IF total_points > 0
         THEN RealMin(RealInt(100),
                      Real(RatMul(RatDiv(predicted_completion, RatInt(total_points)),
                                  RatInt(100))))
         ELSE RealInt(100)
    ELSE RealInt(50)

\* predict, from the velocity statistics on
PredictWith(sprint, tickets, clock, velocity_stats) ==
    LET total_points == SumPoints(tickets)
        completed_points == SumPoints(SelectSeq(tickets, is_done))
        in_progress_points == SumPoints(SelectSeq(tickets, is_in_progress))
        remaining_points == total_points - completed_points
        days_left == days_remaining(sprint, clock)
        has_dates == ~IsNone(sprint.start_date) /\ ~IsNone(sprint.end_date)
        total_days == Days(Val(sprint.end_date) - Val(sprint.start_date))
        days_elapsed == IF has_dates THEN total_days - days_left ELSE 0
        sprint_progress ==
            IF has_dates
            THEN IF total_days > 0 THEN Rat(days_elapsed, total_days) ELSE RatInt(0)
            ELSE Rat(1, 2)
        use_history == UseHistory(velocity_stats)
        points_per_day == RatDiv(velocity_stats.average, RatInt(AssumedSprintDays))
        expected_points == RatMul(points_per_day, RatInt(days_left))
        predicted_completion ==
            IF use_history THEN RatAdd(RatInt(completed_points), expected_points)
            ELSE IF RatLt(RatInt(0), sprint_progress)
                 THEN RatDiv(RatInt(completed_points), sprint_progress)
            ELSE RatInt(total_points)
        completion_probability ==
            IF use_history
            THEN HistoryProbability(remaining_points, expected_points, velocity_stats.std_dev)
            ELSE LinearProbability(predicted_completion, total_points, sprint_progress)
        at_risk_tickets == SortRisksDesc(AtRiskOf(tickets, days_left, sprint_progress))
        risk_level == OverallRiskLevel(completion_probability, at_risk_tickets)
    IN  [sprint_id |-> sprint.id,
         total_points |-> total_points,
         completed_points |-> completed_points,
         in_progress_points |-> in_progress_points,
         remaining_points |-> remaining_points,
         days_remaining |-> days_left,
         days_elapsed |-> days_elapsed,
         completion_probability |-> completion_probability,
         predicted_completion_points |-> RatMin(predicted_completion, RatInt(total_points)),
         predicted_remaining_points |->
             RatMax(RatInt(0), RatSub(RatInt(total_points), predicted_completion)),
         risk_level |-> risk_level,
         at_risk_tickets |-> SubSeq(at_risk_tickets, 1,
                                    IF Len(at_risk_tickets) < 5 THEN Len(at_risk_tickets) ELSE 5),
         recommendations |-> RecommendationsOf(risk_level, at_risk_tickets, velocity_stats.trend)]

predict(sprint, tickets, velocity_history, clock) ==
    PredictWith(sprint, tickets, clock, calculate_velocity_stats(velocity_history))

\* t.assignee and person_name.lower() in t.assignee.lower()
IsPersonTicket(t, person_name) ==
    /\ ~IsNone(t.assignee)
    /\ Val(t.assignee) # <<>>
    /\ Contains(Lower(Val(t.assignee)), Lower(person_name))

\* a faulty variant: the copy loses the ticket's story points
RemovedCopy_NoPoints(ticket) ==
    JiraTicket(ticket.key, ticket.status, NoneVal, NoneVal,
               ticket.labels \o <<S_blocked>>)

\* a faulty variant: the copy starts over in To Do
RemovedCopy_Reopened(ticket) ==
    JiraTicket(ticket.key, S_To_Do, NoneVal, ticket.story_points,
               ticket.labels \o <<S_blocked>>)

\* the copy what_if_remove_person makes of one of the person's open tickets
RemovedCopy(ticket) ==
    JiraTicket(ticket.key, ticket.status, NoneVal, ticket.story_points,
               ticket.labels \o <<S_blocked>>)

\* a faulty variant: the person's done tickets are rewritten too
ModifiedTickets_DoneToo(tickets, person_name) ==
    [i \in DOMAIN tickets |->
        IF IsPersonTicket(tickets[i], person_name)
        THEN RemovedCopy(tickets[i])
        ELSE tickets[i]]

ModifiedTickets(tickets, person_name) ==
    LET person_tickets == SelectSeq(tickets, LAMBDA t : IsPersonTicket(t, person_name))
        in_person_tickets(t) == \E i \in DOMAIN person_tickets : person_tickets[i] = t
    IN  [i \in DOMAIN tickets |->
            IF in_person_tickets(tickets[i]) /\ ~is_done(tickets[i])
            THEN RemovedCopy(tickets[i])
            ELSE tickets[i]]

what_if_remove_person(original, person_name, tickets, sprint, velocity_history, clock) ==
    LET person_tickets == SelectSeq(tickets, LAMBDA t : IsPersonTicket(t, person_name))
        points_affected == SumPoints(SelectSeq(person_tickets, LAMBDA t : ~is_done(t)))
        Scenario(modified_prediction) ==
            [scenario_name |-> [kind |-> "Remove", person |-> person_name, points |-> 0],
             original_prediction |-> original,
             modified_prediction |-> modified_prediction,
             impact_description |->
                 [tickets |-> Len(person_tickets), points |-> points_affected,
                  from |-> original.completion_probability,
                  to |-> modified_prediction.completion_probability,
                  recommend_reassigning |-> points_affected > 0]]
    IN  Scenario(predict(sprint, ModifiedTickets(tickets, person_name), velocity_history,
                         clock))

\* the ticket what_if_add_scope appends
ScopeTicket(additional_points) ==
    JiraTicket("SCOPE-NEW", S_To_Do, NoneVal, Some(additional_points), <<>>)

\* SprintPrediction.completion_percentage
completion_percentage(p) ==
    IF p.total_points = 0 THEN RatInt(0)
    ELSE RatMul(Rat(p.completed_points, p.total_points), RatInt(100))

what_if_add_scope(original, additional_points, tickets, sprint, velocity_history, clock) ==
    LET modified_tickets == tickets \o <<ScopeTicket(additional_points)>>
        Scenario(modified_prediction) ==
            [scenario_name |-> [kind |-> "Add", person |-> <<>>, points |-> additional_points],
             original_prediction |-> original,
             modified_prediction |-> modified_prediction,
             impact_description |->
                 [from |-> original.completion_probability,
                  to |-> modified_prediction.completion_probability]]
    IN  Scenario(predict(sprint, modified_tickets, velocity_history, clock))

probability_change(scenario) ==
    RealSub(scenario.modified_prediction.completion_probability,
            scenario.original_prediction.completion_probability)

(***************************************************************************)
(* src/integrations/github.py, jira.py, calendar.py: the per-person        *)
(* records the analyzer reads                                              *)
(***************************************************************************)
GitHubUser(login, open_prs, pending_reviews, assigned_issues, recent_commits) ==
    [login |-> login, open_prs |-> open_prs, pending_reviews |-> pending_reviews,
     assigned_issues |-> assigned_issues, recent_commits |-> recent_commits]

JiraUser(display_name, assigned_tickets) ==
    [display_name |-> display_name, assigned_tickets |-> assigned_tickets]
total_story_points(u) == SumPoints(u.assigned_tickets)
tickets_in_progress(u) == Len(SelectSeq(u.assigned_tickets, is_in_progress))
tickets_blocked(u) == Len(SelectSeq(u.assigned_tickets, is_blocked))

\* dates are day numbers; day 0 is a Monday
PTOPeriod(start_date, end_date) == [start_date |-> start_date, end_date |-> end_date]
\* PTOPeriod.days: the days of the period that are not on a weekend
PTODays(p) == Cardinality({d \in p.start_date..p.end_date : d % 7 < 5})

UserAvailability(user, email, pto_periods, meeting_hours_this_week) ==
    [user |-> user, email |-> email, pto_periods |-> pto_periods,
     meeting_hours_this_week |-> meeting_hours_this_week]

\* UserAvailability.next_pto: min() returns the first period with the
\* earliest start among those that have not ended
next_pto(a, date_today) ==
    LET future_pto == SelectSeq(a.pto_periods, LAMBDA p : p.end_date >= date_today)
    IN  IF future_pto = <<>> THEN NoneVal
        ELSE Some(future_pto[CHOOSE i \in DOMAIN future_pto :
                      /\ \A j \in DOMAIN future_pto :
                            future_pto[i].start_date <= future_pto[j].start_date
                      /\ \A j \in 1..(i - 1) :
                            future_pto[j].start_date > future_pto[i].start_date])

(***************************************************************************)
(* src/analyzer.py                                                         *)
(***************************************************************************)
DefaultWeights ==
    [github_open_prs |-> RatInt(3), github_pending_reviews |-> RatInt(2),
     github_assigned_issues |-> RatInt(2), github_recent_commits |-> Rat(1, 2),
     jira_story_points |-> RatInt(1), jira_in_progress |-> RatInt(2),
     jira_blocked |-> RatInt(3), meeting_hours |-> Rat(1, 2),
     max_open_prs |-> 5, max_pending_reviews |-> 8, max_assigned_issues |-> 10,
     max_story_points |-> 13, max_meeting_hours |-> 20]

\* a faulty variant: exactly 100 percent does not count as overloaded
status_StrictOverload(member) ==
    IF RatLt(RatInt(100), member.workload_percentage) THEN "OVERLOADED"
    ELSE IF RatLe(RatInt(80), member.workload_percentage) THEN "AT_CAPACITY"
    ELSE "HEALTHY"

\* TeamMemberWorkload.status
status(member) ==
    IF RatLe(RatInt(100), member.workload_percentage) THEN "OVERLOADED"
    ELSE IF RatLe(RatInt(80), member.workload_percentage) THEN "AT_CAPACITY"
    ELSE "HEALTHY"

Times(count, weight) == RatMul(RatInt(count), weight)

_calculate_github_score(w, user) ==
    RatAdd(RatAdd(RatAdd(Times(user.open_prs, w.github_open_prs),
                         Times(user.pending_reviews, w.github_pending_reviews)),
                  Times(user.assigned_issues, w.github_assigned_issues)),
           Times(user.recent_commits, w.github_recent_commits))

_calculate_jira_score(w, user) ==
    RatAdd(RatAdd(Times(total_story_points(user), w.jira_story_points),
                  Times(tickets_in_progress(user), w.jira_in_progress)),
           Times(tickets_blocked(user), w.jira_blocked))

_calculate_calendar_score(w, availability) ==
    Times(availability.meeting_hours_this_week, w.meeting_hours)

\* a faulty variant: the commit count gets a ceiling term too
_calculate_max_score_WithCommits(w) ==
    RatAdd(RatAdd(RatAdd(RatAdd(RatAdd(Times(w.max_open_prs, w.github_open_prs),
                                       Times(w.max_pending_reviews, w.github_pending_reviews)),
                                Times(w.max_assigned_issues, w.github_assigned_issues)),
                         Times(w.max_story_points, w.jira_story_points)),
                  Times(w.max_meeting_hours, w.meeting_hours)),
           Times(20, w.github_recent_commits))

_calculate_max_score(w) ==
    RatAdd(RatAdd(RatAdd(RatAdd(Times(w.max_open_prs, w.github_open_prs),
                                Times(w.max_pending_reviews, w.github_pending_reviews)),
                         Times(w.max_assigned_issues, w.github_assigned_issues)),
                  Times(w.max_story_points, w.jira_story_points)),
           Times(w.max_meeting_hours, w.meeting_hours))

\* a faulty variant: a zero maximum is reported as a full load
PercentageOf_FullWhenNoMax(total_score, max_score) ==
    IF RatLt(RatInt(0), max_score)
    THEN RatMul(RatDiv(total_score, max_score), RatInt(100))
    ELSE RatInt(100)

\* (total_score / max_score) * 100 if max_score > 0 else 0
PercentageOf(total_score, max_score) ==
    IF RatLt(RatInt(0), max_score)
    THEN RatMul(RatDiv(total_score, max_score), RatInt(100))
    ELSE RatInt(0)

\* github, jira and calendar are Optional records
analyze_member(w, name, github, jira, calendar, date_today) ==
    LET has_github == ~IsNone(github)
        has_jira == ~IsNone(jira)
        has_calendar == ~IsNone(calendar)
        g == Val(github)
        j == Val(jira)
        c == Val(calendar)
        has_pto == has_calendar /\ c.pto_periods # <<>>
        total_score ==
            RatAdd(RatAdd(IF has_github THEN _calculate_github_score(w, g) ELSE RatInt(0),
                          IF has_jira THEN _calculate_jira_score(w, j) ELSE RatInt(0)),
                   IF has_calendar THEN _calculate_calendar_score(w, c) ELSE RatInt(0))
    IN  [name |-> name,
         email |-> IF has_calendar THEN Some(c.email) ELSE NoneVal,
         github_open_prs |-> IF has_github THEN g.open_prs ELSE 0,
         github_pending_reviews |-> IF has_github THEN g.pending_reviews ELSE 0,
         github_assigned_issues |-> IF has_github THEN g.assigned_issues ELSE 0,
         github_recent_commits |-> IF has_github THEN g.recent_commits ELSE 0,
         jira_story_points |-> IF has_jira THEN total_story_points(j) ELSE 0,
         jira_tickets_in_progress |-> IF has_jira THEN tickets_in_progress(j) ELSE 0,
         jira_tickets_blocked |-> IF has_jira THEN tickets_blocked(j) ELSE 0,
         meeting_hours_this_week |-> IF has_calendar THEN c.meeting_hours_this_week ELSE 0,
         pto_days_upcoming |->
             IF has_pto
             THEN SumSeq([i \in DOMAIN c.pto_periods |-> PTODays(c.pto_periods[i])])
             ELSE 0,
         next_pto_date |->
             IF has_pto /\ ~IsNone(next_pto(c, date_today))
             THEN Some(Val(next_pto(c, date_today)).start_date)
             ELSE NoneVal,
         workload_score |-> total_score,
         workload_percentage |-> PercentageOf(total_score, _calculate_max_score(w))]

\* a faulty variant: the lookup is keyed by the names as they are written
LookupGet_CaseSensitive(keys, data, name_lower) ==
    LET hits == {i \in DOMAIN data : keys[i] = name_lower}
    IN  IF hits = {} THEN NoneVal
        ELSE Some(data[CHOOSE i \in hits : \A k \in hits : k <= i])

\* {key(u).lower(): u for u in data}.get(name_lower): the last record of
\* data with that key, keys being the sequence of the records' names
LookupGet(keys, data, name_lower) ==
    LET hits == {i \in DOMAIN data : Lower(keys[i]) = name_lower}
    IN  IF hits = {} THEN NoneVal
        ELSE Some(data[CHOOSE i \in hits : \A k \in hits : k <= i])

LookupKeys(keys) == {Lower(keys[i]) : i \in DOMAIN keys}

RECURSIVE InsertMemberDesc(_, _)
\* x goes after every member whose percentage is not lower (stable sort)
InsertMemberDesc(s, x) ==
    IF s = <<>> THEN <<x>>
    ELSE IF RatLe(x.workload_percentage, Head(s).workload_percentage)
         THEN <<Head(s)>> \o InsertMemberDesc(Tail(s), x)
    ELSE <<x>> \o s
RECURSIVE InsertMemberDesc_Before(_, _)
InsertMemberDesc_Before(s, x) ==
    IF s = <<>> THEN <<x>>
    ELSE IF RatLt(x.workload_percentage, Head(s).workload_percentage)
         THEN <<Head(s)>> \o InsertMemberDesc_Before(Tail(s), x)
    ELSE <<x>> \o s
RECURSIVE SortMembersDesc_Reversing(_)
\* a faulty variant: an ascending sort read backwards, which reverses the ties
SortMembersDesc_Reversing(s) ==
    IF s = <<>> THEN <<>>
    ELSE InsertMemberDesc_Before(SortMembersDesc_Reversing(SubSeq(s, 1, Len(s) - 1)),
                                 s[Len(s)])

RECURSIVE SortMembersDesc(_)
\* members.sort(key=lambda m: m.workload_percentage, reverse=True)
SortMembersDesc(s) ==
    IF s = <<>> THEN <<>>
    ELSE InsertMemberDesc(SortMembersDesc(SubSeq(s, 1, Len(s) - 1)), s[Len(s)])

\* the names analyze would take from the sources when no roster is given
UnionNames(github, jira, calendar) ==
    LookupKeys([i \in DOMAIN github |-> github[i].login])
    \cup LookupKeys([i \in DOMAIN jira |-> jira[i].display_name])
    \cup LookupKeys([i \in DOMAIN calendar |-> calendar[i].user])

\* analyze, given the order `names` in which the roster is iterated
analyze(w, github, jira, calendar, names, date_today) ==
    LET github_keys == [i \in DOMAIN github |-> github[i].login]
        jira_keys == [i \in DOMAIN jira |-> jira[i].display_name]
        calendar_keys == [i \in DOMAIN calendar |-> calendar[i].user]
        members ==
            [i \in DOMAIN names |->
                analyze_member(w, names[i],
                               LookupGet(github_keys, github, Lower(names[i])),
                               LookupGet(jira_keys, jira, Lower(names[i])),
                               LookupGet(calendar_keys, calendar, Lower(names[i])),
                               date_today)]
    IN  [members |-> SortMembersDesc(members)]

team_size(s) == Len(s.members)
overloaded_count(s) == Len(SelectSeq(s.members, LAMBDA m : status(m) = "OVERLOADED"))
at_capacity_count(s) == Len(SelectSeq(s.members, LAMBDA m : status(m) = "AT_CAPACITY"))
healthy_count(s) == Len(SelectSeq(s.members, LAMBDA m : status(m) = "HEALTHY"))

\* workload_percentage as the float analyze_member computes; the scores are
\* whole or half numbers, which floats hold exactly
FloatPercentage(total_score, max_score) ==
    IF RatLt(RatInt(0), max_score)
    THEN FMul(FDiv(FOfRat(total_score), FOfRat(max_score)), FOfInt(100))
    ELSE FZero

RECURSIVE SumPlain(_, _)
\* sum() of floats as a plain running total (CPython up to 3.11)
SumPlain(xs, total) ==
    IF xs = <<>> THEN total ELSE SumPlain(Tail(xs), FAdd(total, Head(xs)))

RECURSIVE SumCompensated(_, _, _)
\* sum() of floats with Neumaier's compensation (CPython from 3.12 on)
SumCompensated(xs, total, c) ==
    IF xs = <<>> THEN (IF FIsZero(c) THEN total ELSE FAdd(total, c))
    ELSE LET x == Head(xs)
             t == FAdd(total, x)
         IN  IF FCmp(FAbs(total), FAbs(x)) >= 0
             THEN SumCompensated(Tail(xs), t, FAdd(c, FAdd(FSub(total, t), x)))
             ELSE SumCompensated(Tail(xs), t, FAdd(c, FAdd(FSub(x, t), total)))

FloatSum(xs, compensated) ==
    IF compensated THEN SumCompensated(xs, FZero, FZero) ELSE SumPlain(xs, FZero)

\* TeamWorkloadSummary.average_workload over the members' percentages
average_workload(ps, compensated) ==
    IF ps = <<>> THEN FZero ELSE FDiv(FloatSum(ps, compensated), FOfInt(Len(ps)))

\* TeamWorkloadSummary.workload_variance: the values it can return, one for
\* each way the C library may round ** 2 and ** 0.5
workload_variance(ps, compensated) ==
    IF Len(ps) < 2 THEN {FZero}
    ELSE LET avg == average_workload(ps, compensated)
             diffs == [i \in DOMAIN ps |-> FSub(ps[i], avg)]
             values == {diffs[i] : i \in DOMAIN ps}
             squarings == {f \in [values -> UNION {FSquare(d) : d \in values}] :
                              \A d \in values : f[d] \in FSquare(d)}
         IN  UNION { FPowHalf(FDiv(FloatSum([i \in DOMAIN ps |-> f[diffs[i]]], compensated),
                                   FOfInt(Len(ps))))
                     : f \in squarings }

\* TeamWorkloadSummary.is_balanced, given what workload_variance returned
is_balanced(variance_value) == FLt(variance_value, FOfInt(30))

\* a faulty variant: the threshold itself is excluded
identify_overloaded_Strict(s, threshold) ==
    SelectSeq(s.members, LAMBDA m : RatLt(threshold, m.workload_percentage))

identify_overloaded(s, threshold) ==
    SelectSeq(s.members, LAMBDA m : RatLe(threshold, m.workload_percentage))

(***************************************************************************)
(* src/visualizer.py                                                       *)
(***************************************************************************)
\* what a report call did: the exception it raised, or the reporter method
\* that rendered the value it returned and the data rendered
Raises(exception, message) == [raised |-> exception, by |-> "", of |-> message]
Renders(method, data) == [raised |-> "", by |-> method, of |-> data]

\* WorkloadStatus.value
StatusValue(st) ==
    IF st = "OVERLOADED" THEN "overloaded"
    ELSE IF st = "AT_CAPACITY" THEN "at_capacity"
    ELSE "healthy"

\* format(x, ".0f"): the nearest integer, a tie going to the even one
FormatFixed0(x) ==
    LET below == x.n \div x.d
        twice == 2 * (x.n - below * x.d)
    IN  IF twice < x.d THEN below
        ELSE IF twice > x.d THEN below + 1
        ELSE IF below % 2 = 0 THEN below ELSE below + 1

\* Visualizer.team_report
team_report(team_summary, format) ==
    IF format = "text" THEN Renders("TextReporter.team_workload_report", team_summary)
    ELSE IF format = "slack" THEN Renders("SlackFormatter.daily_summary", team_summary)
    ELSE IF format = "html" THEN Renders("HTMLReporter.team_dashboard", team_summary)
    ELSE Raises("ValueError", <<"Unknown format: ", format>>)

\* Visualizer.sprint_report
sprint_report(sprint_prediction, format) ==
    IF format = "text"
    THEN Renders("TextReporter.sprint_prediction_report", sprint_prediction)
    ELSE IF format = "slack" THEN Renders("SlackFormatter.sprint_alert", sprint_prediction)
    ELSE Raises("ValueError", <<"Unknown format: ", format>>)

\* Visualizer.workload_alert
workload_alert(member, format) ==
    IF format = "slack" THEN Renders("SlackFormatter.workload_alert", member)
    ELSE Renders("Visualizer.workload_alert",
                 <<"ALERT: ", member.name, " is ", StatusValue(status(member)), " at ",
                   FormatFixed0(member.workload_percentage), "%">>)

(***************************************************************************)
(* src/analyzer.py: rebalancing suggestions                                *)
(***************************************************************************)
\* TeamMemberWorkload(name=..., workload_percentage=...), the other fields
\* at their defaults
TeamMemberWorkload(name, workload_percentage) ==
    [name |-> name, email |-> NoneVal,
     github_open_prs |-> 0, github_pending_reviews |-> 0,
     github_assigned_issues |-> 0, github_recent_commits |-> 0,
     jira_story_points |-> 0, jira_tickets_in_progress |-> 0, jira_tickets_blocked |-> 0,
     meeting_hours_this_week |-> 0, pto_days_upcoming |-> 0, next_pto_date |-> NoneVal,
     workload_score |-> RatInt(0), workload_percentage |-> workload_percentage]

\* round(x, 1): the nearest tenth, a tie going to the even one
RoundTenth(x) ==
    LET t == RatMul(x, RatInt(10)) IN Rat(FormatFixed0(t), 10)

\* the dict suggest_rebalancing appends for an overloaded and an available member
Suggestion(over, avail) ==
    [from |-> over.name, to |-> avail.name,
     from_load |-> RoundTenth(over.workload_percentage),
     to_load |-> RoundTenth(avail.workload_percentage),
     recommendation |-> <<"Consider moving some work from ", over.name,
                          FormatFixed0(over.workload_percentage), avail.name,
                          FormatFixed0(avail.workload_percentage)>>]

\* capacity_diff > 30
SignificantGap_AtLeast(over, avail) ==
    RatLe(RatInt(30), RatSub(over.workload_percentage, avail.workload_percentage))

SignificantGap(over, avail) ==
    RatLt(RatInt(30), RatSub(over.workload_percentage, avail.workload_percentage))

RECURSIVE FirstTarget(_, _)
\* the inner loop: the first available member with a significant gap, if any
FirstTarget(over, available) ==
    IF available = <<>> THEN NoneVal
    ELSE IF SignificantGap(over, Head(available)) THEN Some(Head(available))
    ELSE FirstTarget(over, Tail(available))

RECURSIVE SuggestFor(_, _)
\* the outer loop over the overloaded members
SuggestFor(overloaded_members, available) ==
    IF overloaded_members = <<>> THEN <<>>
    ELSE LET over == Head(overloaded_members)
             target == FirstTarget(over, available)
         IN  (IF IsNone(target) THEN <<>> ELSE <<Suggestion(over, Val(target))>>)
             \o SuggestFor(Tail(overloaded_members), available)

\* WorkloadAnalyzer.suggest_rebalancing
suggest_rebalancing(s) ==
    SuggestFor(SelectSeq(s.members, LAMBDA m : status(m) = "OVERLOADED"),
               SelectSeq(s.members, LAMBDA m : status(m) = "HEALTHY"))

(***************************************************************************)
(* src/api.py: the routes, the cache and the handlers of the workload and  *)
(* sprint endpoints.  A handler is given the cache and what the tracker    *)
(* holds, and yields the cache it leaves and the response.                 *)
(***************************************************************************)
Seg_api == <<"a","p","i">>
Seg_workload == <<"w","o","r","k","l","o","a","d">>
Seg_overloaded == <<"o","v","e","r","l","o","a","d","e","d">>
Seg_suggestions == <<"s","u","g","g","e","s","t","i","o","n","s">>
Seg_sprint == <<"s","p","r","i","n","t">>
Seg_current == <<"c","u","r","r","e","n","t">>
Seg_what_if == <<"w","h","a","t","-","i","f">>
Seg_health == <<"h","e","a","l","t","h">>

\* a path segment of a route: a literal, or a {name} parameter
Literal(text) == [param |-> FALSE, text |-> text]
PathParam(name) == [param |-> TRUE, text |-> name]

Route(method, path, endpoint) == [method |-> method, path |-> path, endpoint |-> endpoint]

\* the health, workload and sprint routes that take part here, in the order
\* the decorators register them
Routes ==
    << Route("GET", <<Literal(Seg_health)>>, "health_check"),
       Route("GET", <<Literal(Seg_api), Literal(Seg_workload)>>, "get_team_workload"),
       Route("GET", <<Literal(Seg_api), Literal(Seg_workload), PathParam("member_name")>>,
             "get_member_workload"),
       Route("GET", <<Literal(Seg_api), Literal(Seg_workload), Literal(Seg_overloaded)>>,
             "get_overloaded_members"),
       Route("GET", <<Literal(Seg_api), Literal(Seg_workload), Literal(Seg_suggestions)>>,
             "get_rebalancing_suggestions"),
       Route("GET", <<Literal(Seg_api), Literal(Seg_sprint), Literal(Seg_current)>>,
             "get_current_sprint"),
       Route("POST", <<Literal(Seg_api), Literal(Seg_sprint), Literal(Seg_what_if)>>,
             "run_what_if_scenario") >>

\* a route's path matches a request path: literals are equal, a parameter
\* takes any non-empty segment
PathMatches(pattern, path) ==
    /\ Len(pattern) = Len(path)
    /\ \A k \in DOMAIN pattern :
          IF pattern[k].param THEN path[k] # <<>> ELSE pattern[k].text = path[k]

RECURSIVE FirstMatch(_, _, _, _)
\* the router tries the routes in registration order and takes the first
\* whose path and method match
FirstMatch(routes, k, method, path) ==
    IF k > Len(routes) THEN NoneVal
    ELSE IF routes[k].method = method /\ PathMatches(routes[k].path, path)
         THEN Some(routes[k])
    ELSE FirstMatch(routes, k + 1, method, path)

\* what a handler leaves behind: the two cache entries and the response
Served(team_workload, sprint_prediction, status_code, body) ==
    [team_workload |-> team_workload, sprint_prediction |-> sprint_prediction,
     status_code |-> status_code, body |-> body]

\* the tracker's answers: the active sprint, its velocity history and the
\* clock are fixed, the tickets are whatever the tracker holds at the call
ApiSprint == Sprint(1, Some(0), Some(SprintLength * TicksPerDay))
ApiClock == 5 * TicksPerDay
ApiVelocity == <<15, 14, 16>>
ApiGitHubData == <<GitHubUser(S_Alice, 5, 8, 10, 0), GitHubUser(S_Bob, 0, 0, 0, 0)>>
ApiTeamMembers == <<S_Alice, S_Bob>>

health_check(cached_workload, cached_prediction) ==
    Served(cached_workload, cached_prediction, 200, <<"healthy">>)

\* get_team_workload: fetch, analyze, cache
FetchedSummary == analyze(DefaultWeights, ApiGitHubData, <<>>, <<>>, ApiTeamMembers, 0)

get_team_workload(cached_workload, cached_prediction) ==
    Served(Some(FetchedSummary), cached_prediction, 200, FetchedSummary)

\* summary = _cache.get("team_workload"), fetched first if absent
SummaryOrFetch(cached_workload) ==
    IF IsNone(cached_workload) THEN FetchedSummary ELSE Val(cached_workload)

get_member_workload(member_name, cached_workload, cached_prediction) ==
    LET s == SummaryOrFetch(cached_workload)
        found == { k \in DOMAIN s.members : Lower(s.members[k].name) = Lower(member_name) }
    IN  IF found # {}
        THEN Served(Some(s), cached_prediction, 200,
                    s.members[CHOOSE k \in found : \A l \in found : k <= l])
        ELSE Served(Some(s), cached_prediction, 404, <<"Member not found", member_name>>)

\* threshold is the query parameter's default, 100
get_overloaded_members(cached_workload, cached_prediction) ==
    LET s == SummaryOrFetch(cached_workload)
        members == identify_overloaded(s, RatInt(100))
    IN  Served(Some(s), cached_prediction, 200,
               [threshold |-> 100, count |-> Len(members), members |-> members])

\* of the body, the suggestions; is_balanced and variance are left out
get_rebalancing_suggestions(cached_workload, cached_prediction) ==
    LET s == SummaryOrFetch(cached_workload)
    IN  Served(Some(s), cached_prediction, 200, [suggestions |-> suggest_rebalancing(s)])

\* Jira is configured and a sprint is active
get_current_sprint(tracker, cached_workload, cached_prediction) ==
    LET Cached(p) == Served(cached_workload, Some(p), 200, p)
    IN  Cached(predict(ApiSprint, tracker, ApiVelocity, ApiClock))

WhatIfRequest(scenario_type, person_name, additional_points) ==
    [scenario_type |-> scenario_type, person_name |-> person_name,
     additional_points |-> additional_points]

\* the two request shapes the handler serves; None, "" and 0 are falsy
IsRemoveRequest(request) ==
    /\ request.scenario_type = "remove_person"
    /\ ~IsNone(request.person_name) /\ Val(request.person_name) # <<>>

IsAddRequest(request) ==
    /\ request.scenario_type = "add_scope"
    /\ ~IsNone(request.additional_points) /\ Val(request.additional_points) # 0

\* the status of the response when the handler's else branch raises
\* HTTPException(400): the raise is inside the try, and except Exception
\* turns it into HTTPException(500)
InvalidScenarioStatus == 500

\* the scenario run_what_if_scenario answers with, given the prediction it
\* takes as the original
ScenarioResponse(request, original, tracker, cached_workload) ==
    IF IsRemoveRequest(request)
    THEN Served(cached_workload, Some(original), 200,
                what_if_remove_person(original, Val(request.person_name), tracker,
                                      ApiSprint, ApiVelocity, ApiClock))
    ELSE IF IsAddRequest(request)
    THEN Served(cached_workload, Some(original), 200,
                what_if_add_scope(original, Val(request.additional_points), tracker,
                                  ApiSprint, ApiVelocity, ApiClock))
    ELSE Served(cached_workload, Some(original), InvalidScenarioStatus,
                <<"400: Invalid scenario parameters">>)

\* run_what_if_scenario: the original is the cached prediction, and
\* get_current_sprint is called only if the cache holds none; the tickets
\* are fetched anew
run_what_if_scenario(request, tracker, cached_workload, cached_prediction) ==
    ScenarioResponse(request,
                     IF IsNone(cached_prediction)
                     THEN get_current_sprint(tracker, cached_workload,
                                             cached_prediction).body
                     ELSE Val(cached_prediction),
                     tracker, cached_workload)

(***************************************************************************)
(* State                                                                   *)
(***************************************************************************)
VARIABLES
    sprint,            \* the Sprint handed to the predictor
    tickets,           \* its list of JiraTicket
    velocity_history,  \* completed_points of the past sprints
    now,               \* what datetime.now() returns, in ticks
    prediction,        \* Optional: the last SprintPrediction predict returned
    progress,          \* Optional: what Sprint.progress_percentage did
    scenario,          \* Optional: the last WhatIfScenario returned
    weights,           \* the WorkloadWeights of the analyzer
    github_data,       \* list of GitHubUser
    jira_data,         \* list of JiraUser
    calendar_data,     \* list of UserAvailability
    team_members,      \* Optional: the roster handed to analyze
    today,             \* what date.today() returns, a day number
    names_order,       \* the order in which analyze iterated the roster
    summary,           \* Optional: the last TeamWorkloadSummary returned
    overloaded,        \* Optional: the last identify_overloaded call and its result
    suggestions,       \* Optional: what suggest_rebalancing returned
    percentages,       \* workload_percentage of the members of a TeamWorkloadSummary
    sum_compensated,   \* whether the interpreter's sum() compensates (3.12 on)
    variance,          \* Optional: what workload_variance returned
    balanced,          \* Optional: what is_balanced returned
    report_summary,    \* the TeamWorkloadSummary handed to the Visualizer
    report_prediction, \* the SprintPrediction handed to the Visualizer
    report,            \* Optional: the last Visualizer call and what it did
    risk_ticket,       \* the ticket handed to assess_ticket_risk
    risk_days,         \* its days_remaining argument
    risk_progress,     \* its sprint_progress argument
    ticket_risk,       \* Optional: the TicketRisk it returned
    stats_history,     \* the velocity history handed to calculate_velocity_stats
    velocity_stats,    \* Optional: the VelocityStats it returned
    tracker_tickets,   \* the tickets of the active sprint, as Jira holds them now
    cache_workload,    \* _cache["team_workload"]
    cache_prediction,  \* _cache["sprint_prediction"]
    response           \* Optional: the last request and the response to it

forecast_vars == <<sprint, tickets, velocity_history, now, prediction, scenario, progress>>
workload_vars == <<weights, github_data, jira_data, calendar_data, team_members, today,
                   names_order, summary, overloaded, suggestions>>
balance_vars == <<percentages, sum_compensated, variance, balanced>>
report_vars == <<report_summary, report_prediction, report>>
risk_vars == <<risk_ticket, risk_days, risk_progress, ticket_risk>>
stats_vars == <<stats_history, velocity_stats>>
api_vars == <<tracker_tickets, cache_workload, cache_prediction, response>>
later_vars == <<stats_vars, api_vars>>
other_vars == <<balance_vars, report_vars, risk_vars, later_vars>>
vars == <<forecast_vars, workload_vars, other_vars>>

\* the analyzer is idle while the forecast runs, and the other way round
WorkloadIdle ==
    /\ weights = DefaultWeights
    /\ github_data = <<>> /\ jira_data = <<>> /\ calendar_data = <<>>
    /\ team_members = NoneVal
    /\ today = 0
    /\ names_order = <<>>
    /\ summary = NoneVal
    /\ overloaded = NoneVal
    /\ suggestions = NoneVal

BalanceIdle ==
    /\ percentages = <<>>
    /\ sum_compensated = FALSE
    /\ variance = NoneVal
    /\ balanced = NoneVal

ReportIdle ==
    /\ report_summary = NoneVal
    /\ report_prediction = NoneVal
    /\ report = NoneVal

RiskIdle ==
    /\ risk_ticket = NoneVal
    /\ risk_days = 0
    /\ risk_progress = RatInt(0)
    /\ ticket_risk = NoneVal

StatsIdle ==
    /\ stats_history = <<>>
    /\ velocity_stats = NoneVal

ApiIdle ==
    /\ tracker_tickets = <<>>
    /\ cache_workload = NoneVal
    /\ cache_prediction = NoneVal
    /\ response = NoneVal

LaterIdle == StatsIdle /\ ApiIdle

OthersIdle == BalanceIdle /\ ReportIdle /\ RiskIdle /\ LaterIdle

ForecastIdle ==
    /\ sprint = Sprint(1, NoneVal, NoneVal)
    /\ tickets = <<>>
    /\ velocity_history = <<>>
    /\ now = 0
    /\ prediction = NoneVal
    /\ scenario = NoneVal
    /\ progress = NoneVal

(***************************************************************************)
(* Inputs of the forecast                                                  *)
(***************************************************************************)
MaxTickets == 2

TicketKeys == <<"P-1", "P-2", "P-3", "P-4", "P-5", "P-6", "P-7", "P-8">>

\* [status, assignee, story_points, labels] of the tickets a sprint holds;
\* story_points is any number the Jira field holds, a negative one included
TicketKinds ==
    { [status |-> S_Done, assignee |-> Some(S_Alice), story_points |-> Some(10), labels |-> <<>>],
      [status |-> S_In_Progress, assignee |-> Some(S_Alice), story_points |-> Some(5), labels |-> <<>>],
      [status |-> S_To_Do, assignee |-> Some(S_Bob), story_points |-> Some(8), labels |-> <<>>],
      [status |-> S_Open, assignee |-> NoneVal, story_points |-> NoneVal, labels |-> <<>>],
      [status |-> S_In_Progress, assignee |-> Some(S_Bob), story_points |-> Some(3),
       labels |-> <<<<"B","l","o","c","k","e","d">>>>],
      [status |-> S_Done, assignee |-> Some(S_Bob), story_points |-> Some(-5), labels |-> <<>>] }

TicketLists ==
    UNION { { [i \in 1..n |-> JiraTicket(TicketKeys[i], k[i].status, k[i].assignee,
                                         k[i].story_points, k[i].labels)]
              : k \in [1..n -> TicketKinds] } : n \in 0..MaxTickets }

\* a sprint of ten days starting at tick 0, one without dates, one with
\* only an end date, and one whose two dates coincide
Sprints ==
    { Sprint(1, Some(0), Some(SprintLength * TicksPerDay)),
      Sprint(1, NoneVal, NoneVal),
      Sprint(1, NoneVal, Some(SprintLength * TicksPerDay)),
      Sprint(1, Some(0), Some(0)) }

\* the clock readings tried for the dated sprint: before the start, at the
\* start, mid-sprint, 7 days in (3 days left), a tick later (2 days left),
\* at the end, after the end
Clocks == { -TicksPerDay, 0, 5 * TicksPerDay, 7 * TicksPerDay, 7 * TicksPerDay + 1,
            SprintLength * TicksPerDay, (SprintLength + 1) * TicksPerDay }

SprintsAndClocks ==
    { <<s, c>> \in Sprints \X Clocks :
        IsNone(s.end_date) \/ Val(s.end_date) = 0 => c = 5 * TicksPerDay }

VelocityHistories ==
    { <<>>, <<15, 14>>, <<15, 14, 16>>, <<15, 15, 15>>,
      <<10, 12, 20, 25>>, <<25, 22, 12, 10>> }

PersonNames == { <<"a","l","i","c","e">>, <<"B","o">>, <<"C","a","r","o","l">> }
ScopePoints == { 1, 10 }

InitForecast ==
    /\ \E sc \in SprintsAndClocks : sprint = sc[1] /\ now = sc[2]
    /\ tickets \in TicketLists
    /\ velocity_history \in VelocityHistories
    /\ prediction = NoneVal
    /\ scenario = NoneVal
    /\ progress = NoneVal
    /\ WorkloadIdle
    /\ OthersIdle

(***************************************************************************)
(* Operations of the forecast.  One run is a call of predict followed by   *)
(* one what-if call that is handed its result.  The functions are pure:    *)
(* a further call on the same inputs returns what the first one returned,  *)
(* so a run makes each call once.                                          *)
(***************************************************************************)
Predict ==
    /\ IsNone(prediction)
    /\ prediction' = Some(predict(sprint, tickets, velocity_history, now))
    /\ UNCHANGED <<sprint, tickets, velocity_history, now, scenario, progress,
                   workload_vars, other_vars>>

\* the caller passes the prediction it got from predict as `original`
WhatIfRemovePerson ==
    /\ ~IsNone(prediction)
    /\ IsNone(scenario)
    /\ \E person_name \in PersonNames :
         scenario' = Some(what_if_remove_person(Val(prediction), person_name, tickets,
                                                sprint, velocity_history, now))
    /\ UNCHANGED <<sprint, tickets, velocity_history, now, prediction, progress,
                   workload_vars, other_vars>>

WhatIfAddScope ==
    /\ ~IsNone(prediction)
    /\ IsNone(scenario)
    /\ \E additional_points \in ScopePoints :
         scenario' = Some(what_if_add_scope(Val(prediction), additional_points, tickets,
                                            sprint, velocity_history, now))
    /\ UNCHANGED <<sprint, tickets, velocity_history, now, prediction, progress,
                   workload_vars, other_vars>>

\* the sprint's own progress property, read at the same clock reading
ProgressPercentage ==
    /\ IsNone(progress)
    /\ progress' = Some(progress_percentage(sprint, now))
    /\ UNCHANGED <<sprint, tickets, velocity_history, now, prediction, scenario,
                   workload_vars, other_vars>>

NextForecast == Predict \/ WhatIfRemovePerson \/ WhatIfAddScope \/ ProgressPercentage

SpecForecast == InitForecast /\ [][NextForecast]_vars

(***************************************************************************)
(* A forecast of a sprint that holds more tickets than the five the        *)
(* prediction lists                                                        *)
(***************************************************************************)
MinFullTickets == 5
MaxFullTickets == 6

\* an unassigned open ticket, a large to-do ticket, a blocked ticket in
\* progress, and a done ticket
FullTicketKinds ==
    { [status |-> S_Open, assignee |-> NoneVal, story_points |-> NoneVal, labels |-> <<>>],
      [status |-> S_To_Do, assignee |-> Some(S_Bob), story_points |-> Some(8), labels |-> <<>>],
      [status |-> S_In_Progress, assignee |-> Some(S_Bob), story_points |-> Some(3),
       labels |-> <<<<"B","l","o","c","k","e","d">>>>],
      [status |-> S_Done, assignee |-> Some(S_Alice), story_points |-> Some(10), labels |-> <<>>] }

FullTicketLists ==
    UNION { { [i \in 1..n |-> JiraTicket(TicketKeys[i], k[i].status, k[i].assignee,
                                         k[i].story_points, k[i].labels)]
              : k \in [1..n -> FullTicketKinds] } : n \in MinFullTickets..MaxFullTickets }

\* the ten-day sprint, mid-sprint, 7 days in and a tick later
InitFullSprint ==
    /\ sprint = Sprint(1, Some(0), Some(SprintLength * TicksPerDay))
    /\ now \in { 5 * TicksPerDay, 7 * TicksPerDay, 7 * TicksPerDay + 1 }
    /\ tickets \in FullTicketLists
    /\ velocity_history = <<15, 14, 16>>
    /\ prediction = NoneVal
    /\ scenario = NoneVal
    /\ progress = NoneVal
    /\ WorkloadIdle
    /\ OthersIdle

NextFullSprint == Predict

SpecFullSprint == InitFullSprint /\ [][NextFullSprint]_vars

(***************************************************************************)
(* Inputs of the workload analysis                                         *)
(***************************************************************************)
MaxGitHubUsers == 2

S_alice == <<"a","l","i","c","e">>
S_bob == <<"b","o","b">>
S_carol == <<"c","a","r","o","l">>

\* the defaults, the same with every weight 0, and the weights of
\* test_custom_weights
WeightConfigs ==
    { DefaultWeights,
      [DefaultWeights EXCEPT !.github_open_prs = RatInt(0),
                             !.github_pending_reviews = RatInt(0),
                             !.github_assigned_issues = RatInt(0),
                             !.github_recent_commits = RatInt(0),
                             !.jira_story_points = RatInt(0),
                             !.jira_in_progress = RatInt(0),
                             !.jira_blocked = RatInt(0),
                             !.meeting_hours = RatInt(0)],
      [DefaultWeights EXCEPT !.github_open_prs = RatInt(5),
                             !.github_pending_reviews = RatInt(1)] }

\* a person at the default ceilings, the person of the worked example, an
\* overloaded one, one with no activity and one who mostly commits
GitHubKinds ==
    { GitHubUser(S_alice, 5, 8, 10, 0),
      GitHubUser(S_Alice, 3, 5, 4, 10),
      GitHubUser(S_bob, 10, 16, 20, 0),
      GitHubUser(S_bob, 0, 0, 0, 0),
      GitHubUser(S_carol, 5, 8, 10, 20) }

GitHubLists == UNION { [1..n -> GitHubKinds] : n \in 0..MaxGitHubUsers }

JiraLists ==
    { <<>>,
      <<JiraUser(S_Alice, <<JiraTicket("P-1", S_To_Do, Some(S_Alice), Some(8), <<>>),
                            JiraTicket("P-2", S_To_Do, Some(S_Alice), Some(5), <<>>)>>)>>,
      <<JiraUser(S_Bob, <<JiraTicket("P-3", S_In_Progress, Some(S_Bob), Some(5), <<>>),
                          JiraTicket("P-4", S_To_Do, Some(S_Bob), NoneVal, <<S_blocked>>)>>)>>,
      <<JiraUser(S_carol, <<>>)>> }

CalendarLists ==
    { <<>>,
      <<UserAvailability(S_alice, "alice@company.com",
                         <<PTOPeriod(10, 16), PTOPeriod(1, 1), PTOPeriod(3, 9)>>, 20)>>,
      <<UserAvailability(S_carol, "carol@company.com", <<>>, 0)>> }

Rosters ==
    { NoneVal, Some(<<>>), Some(<<S_alice>>), Some(<<S_Alice, S_alice>>),
      Some(<<S_bob, S_carol>>), Some(<<S_carol, S_bob, S_Alice>>),
      Some(<<S_Alice, S_bob>>) }

Thresholds == { RatInt(80), RatInt(100), RatInt(110) }

InitWorkload ==
    /\ weights \in WeightConfigs
    /\ github_data \in GitHubLists
    /\ jira_data \in JiraLists
    /\ calendar_data \in CalendarLists
    /\ team_members \in Rosters
    /\ today = 4
    /\ names_order = <<>>
    /\ summary = NoneVal
    /\ overloaded = NoneVal
    /\ suggestions = NoneVal
    /\ ForecastIdle
    /\ OthersIdle

(***************************************************************************)
(* Operations of the workload analysis.  One run is a call of analyze      *)
(* followed by one query on the summary it returned.                       *)
(***************************************************************************)
\* every order in which a set can be iterated
Orders(S) == {f \in [1..Cardinality(S) -> S] : \A x \in S : \E i \in DOMAIN f : f[i] = x}

\* names = team_members if team_members else the set union of the lookups' keys
RosterOrders ==
    IF ~IsNone(team_members) /\ Val(team_members) # <<>>
    THEN {Val(team_members)}
    ELSE Orders(UnionNames(github_data, jira_data, calendar_data))

Analyze ==
    /\ IsNone(summary)
    /\ \E names \in RosterOrders :
         /\ names_order' = names
         /\ summary' = Some(analyze(weights, github_data, jira_data, calendar_data,
                                    names, today))
    /\ UNCHANGED <<weights, github_data, jira_data, calendar_data, team_members, today,
                   overloaded, suggestions, forecast_vars, other_vars>>

IdentifyOverloaded ==
    /\ ~IsNone(summary)
    /\ IsNone(overloaded)
    /\ \E threshold \in Thresholds :
         overloaded' = Some([threshold |-> threshold,
                             members |-> identify_overloaded(Val(summary), threshold)])
    /\ UNCHANGED <<weights, github_data, jira_data, calendar_data, team_members, today,
                   names_order, summary, suggestions, forecast_vars, other_vars>>

NextWorkload == Analyze \/ IdentifyOverloaded

SpecWorkload == InitWorkload /\ [][NextWorkload]_vars

(***************************************************************************)
(* Rebalancing suggestions for a summary built from its members, as the    *)
(* tests build it                                                          *)
(***************************************************************************)
MaxSummaryMembers == 4

\* percentages on both sides of the status thresholds and of the gap of 30
SummaryPercentages ==
    { RatInt(130), RatInt(100), RatInt(95), RatInt(75), RatInt(70), RatInt(50) }

SummaryNames == <<<<"A">>, <<"B">>, <<"C">>, <<"D">>, <<"E">>>>

DirectSummaries ==
    UNION { { [members |-> [i \in 1..n |-> TeamMemberWorkload(SummaryNames[i], ps[i])]]
              : ps \in [1..n -> SummaryPercentages] } : n \in 0..MaxSummaryMembers }

InitRebalance ==
    /\ weights = DefaultWeights
    /\ github_data = <<>> /\ jira_data = <<>> /\ calendar_data = <<>>
    /\ team_members = NoneVal
    /\ today = 0
    /\ names_order = <<>>
    /\ summary \in { Some(x) : x \in DirectSummaries }
    /\ overloaded = NoneVal
    /\ suggestions = NoneVal
    /\ ForecastIdle
    /\ OthersIdle

SuggestRebalancing ==
    /\ ~IsNone(summary)
    /\ IsNone(suggestions)
    /\ suggestions' = Some(suggest_rebalancing(Val(summary)))
    /\ UNCHANGED <<weights, github_data, jira_data, calendar_data, team_members, today,
                   names_order, summary, overloaded, forecast_vars, other_vars>>

NextRebalance == SuggestRebalancing

SpecRebalance == InitRebalance /\ [][NextRebalance]_vars

(***************************************************************************)
(* Inputs and operations of the balance check on a TeamWorkloadSummary     *)
(***************************************************************************)
MaxMembers == 3

\* raw scores of members under the default weights: idle, one recent commit,
\* one story point, at every ceiling
MemberScores == { RatInt(0), Rat(1, 2), RatInt(1), RatInt(74) }

TeamPercentages ==
    { FloatPercentage(sc, _calculate_max_score(DefaultWeights)) : sc \in MemberScores }

InitBalance ==
    /\ percentages \in UNION { [1..n -> TeamPercentages] : n \in 0..MaxMembers }
    /\ sum_compensated \in BOOLEAN
    /\ variance = NoneVal
    /\ balanced = NoneVal
    /\ ForecastIdle
    /\ WorkloadIdle
    /\ ReportIdle
    /\ RiskIdle
    /\ LaterIdle

WorkloadVariance ==
    /\ IsNone(variance)
    /\ \E v \in workload_variance(percentages, sum_compensated) : variance' = Some(v)
    /\ UNCHANGED <<percentages, sum_compensated, balanced, forecast_vars, workload_vars, report_vars,
                   risk_vars, later_vars>>

\* is_balanced compares the value workload_variance returns on this build
IsBalanced ==
    /\ ~IsNone(variance)
    /\ IsNone(balanced)
    /\ balanced' = Some(is_balanced(Val(variance)))
    /\ UNCHANGED <<percentages, sum_compensated, variance, forecast_vars, workload_vars, report_vars,
                   risk_vars, later_vars>>

NextBalance == WorkloadVariance \/ IsBalanced

SpecBalance == InitBalance /\ [][NextBalance]_vars

(***************************************************************************)
(* Inputs and operations of the Visualizer                                 *)
(***************************************************************************)
\* the three selectors of the signatures, and three no signature lists
Formats == { "text", "slack", "html", "markdown", "json", "" }

\* summaries of one member: each GitHub record under each weighting
ReportSummaries ==
    { analyze(w, <<g>>, <<>>, <<>>, <<g.login>>, 4) : w \in WeightConfigs, g \in GitHubKinds }

\* predictions of the dated sprint, mid-sprint, with and without history
ReportPredictions ==
    { predict(Sprint(1, Some(0), Some(SprintLength * TicksPerDay)), tk, vh, 5 * TicksPerDay)
        : tk \in { t \in TicketLists : Len(t) = 1 }, vh \in { <<>>, <<15, 14, 16>> } }

InitReport ==
    /\ report_summary \in { Some(x) : x \in ReportSummaries }
    /\ report_prediction \in { Some(x) : x \in ReportPredictions }
    /\ report = NoneVal
    /\ ForecastIdle
    /\ WorkloadIdle
    /\ BalanceIdle
    /\ RiskIdle
    /\ LaterIdle

ReportCall(operation, format, outcome) ==
    [operation |-> operation, format |-> format, outcome |-> outcome]

TeamReport ==
    /\ IsNone(report)
    /\ \E format \in Formats :
         report' = Some(ReportCall("team_report", format,
                                   team_report(Val(report_summary), format)))
    /\ UNCHANGED <<report_summary, report_prediction, forecast_vars, workload_vars,
                   balance_vars, risk_vars, later_vars>>

SprintReport ==
    /\ IsNone(report)
    /\ \E format \in Formats :
         report' = Some(ReportCall("sprint_report", format,
                                   sprint_report(Val(report_prediction), format)))
    /\ UNCHANGED <<report_summary, report_prediction, forecast_vars, workload_vars,
                   balance_vars, risk_vars, later_vars>>

WorkloadAlert ==
    /\ IsNone(report)
    /\ \E format \in Formats, i \in DOMAIN Val(report_summary).members :
         report' = Some(ReportCall("workload_alert", format,
                                   workload_alert(Val(report_summary).members[i], format)))
    /\ UNCHANGED <<report_summary, report_prediction, forecast_vars, workload_vars,
                   balance_vars, risk_vars, later_vars>>

NextReport == TeamReport \/ SprintReport \/ WorkloadAlert

SpecReport == InitReport /\ [][NextReport]_vars

(***************************************************************************)
(* Inputs and operation of the per-ticket risk assessment                  *)
(***************************************************************************)
\* statuses in the spellings Jira boards use, assignees absent, empty and
\* present, sizes absent, zero, small and large, with and without a
\* "Blocked" label
RiskStatuses ==
    { S_To_Do, <<"B","a","c","k","l","o","g">>, <<"O","P","E","N">>, S_In_Progress,
      <<"B","l","o","c","k","e","d">>, S_Done }
RiskAssignees == { NoneVal, Some(<<>>), Some(S_Alice) }
RiskPoints == { NoneVal, Some(0), Some(3), Some(5), Some(8) }
RiskLabels == { <<>>, <<<<"B","l","o","c","k","e","d">>>> }
RiskDays == { 0, 2, 3, 4, 5 }
RiskProgress == { RatInt(0), Rat(1, 2), Rat(3, 5), Rat(3, 4), Rat(4, 5), RatInt(1) }

InitRisk ==
    /\ risk_ticket \in { Some(JiraTicket("P-1", st, a, sp, l)) :
                           st \in RiskStatuses, a \in RiskAssignees,
                           sp \in RiskPoints, l \in RiskLabels }
    /\ risk_days \in RiskDays
    /\ risk_progress \in RiskProgress
    /\ ticket_risk = NoneVal
    /\ ForecastIdle
    /\ WorkloadIdle
    /\ BalanceIdle
    /\ ReportIdle
    /\ LaterIdle

AssessTicketRisk ==
    /\ IsNone(ticket_risk)
    /\ ticket_risk' = Some(assess_ticket_risk(Val(risk_ticket), risk_days, risk_progress))
    /\ UNCHANGED <<risk_ticket, risk_days, risk_progress, forecast_vars, workload_vars,
                   balance_vars, report_vars, later_vars>>

NextRisk == AssessTicketRisk

SpecRisk == InitRisk /\ [][NextRisk]_vars

(***************************************************************************)
(* Inputs and operation of the velocity statistics                         *)
(***************************************************************************)
MaxHistory == 6

\* completed points of past sprints
HistoryPoints == { 10, 15, 16, 18 }

StatsHistories == UNION { [1..n -> HistoryPoints] : n \in 0..MaxHistory }

InitStats ==
    /\ stats_history \in StatsHistories
    /\ velocity_stats = NoneVal
    /\ ForecastIdle
    /\ WorkloadIdle
    /\ BalanceIdle
    /\ ReportIdle
    /\ RiskIdle
    /\ ApiIdle

CalculateVelocityStats ==
    /\ IsNone(velocity_stats)
    /\ velocity_stats' = Some(calculate_velocity_stats(stats_history))
    /\ UNCHANGED <<stats_history, forecast_vars, workload_vars, balance_vars, report_vars,
                   risk_vars, api_vars>>

NextStats == CalculateVelocityStats

SpecStats == InitStats /\ [][NextStats]_vars

(***************************************************************************)
(* The API in service: requests arrive in any order while the tickets in   *)
(* the tracker change                                                      *)
(***************************************************************************)
\* what the tracker can hold for the active sprint
ApiTicketLists ==
    { <<JiraTicket("P-1", S_Done, Some(S_Alice), Some(10), <<>>),
        JiraTicket("P-2", S_In_Progress, Some(S_Alice), Some(5), <<>>)>>,
      <<JiraTicket("P-1", S_Done, Some(S_Alice), Some(10), <<>>),
        JiraTicket("P-2", S_Done, Some(S_Alice), Some(5), <<>>)>>,
      <<JiraTicket("P-1", S_Done, Some(S_Alice), Some(10), <<>>),
        JiraTicket("P-2", S_In_Progress, Some(S_Alice), Some(5), <<>>),
        JiraTicket("P-3", S_To_Do, Some(S_Bob), Some(8), <<>>)>> }

\* the paths of the GET requests: the workload endpoints, a member by name,
\* a name no member has, the sprint endpoint, and a path no route has
GetPaths ==
    { <<Seg_api, Seg_workload>>,
      <<Seg_api, Seg_workload, Seg_overloaded>>,
      <<Seg_api, Seg_workload, Seg_suggestions>>,
      <<Seg_api, Seg_workload, <<"a","l","i","c","e">>>>,
      <<Seg_api, Seg_workload, <<"z","o","e">>>>,
      <<Seg_api, Seg_sprint, Seg_current>>,
      <<Seg_api, Seg_sprint>>,
      <<Seg_health>> }

WhatIfRequests ==
    { WhatIfRequest("remove_person", Some(<<"a","l","i","c","e">>), NoneVal),
      WhatIfRequest("remove_person", NoneVal, NoneVal),
      WhatIfRequest("remove_person", Some(<<>>), NoneVal),
      WhatIfRequest("add_scope", NoneVal, Some(10)),
      WhatIfRequest("add_scope", NoneVal, Some(0)),
      WhatIfRequest("add_person", Some(<<"a","l","i","c","e">>), Some(10)) }

InitApi ==
    /\ tracker_tickets \in ApiTicketLists
    /\ cache_workload = NoneVal
    /\ cache_prediction = NoneVal
    /\ response = NoneVal
    /\ ForecastIdle
    /\ WorkloadIdle
    /\ BalanceIdle
    /\ ReportIdle
    /\ RiskIdle
    /\ StatsIdle

\* a ticket is added, finished or reopened in the tracker
TrackerChange ==
    /\ tracker_tickets' \in ApiTicketLists \ {tracker_tickets}
    /\ UNCHANGED <<cache_workload, cache_prediction, response, forecast_vars,
                   workload_vars, balance_vars, report_vars, risk_vars, stats_vars>>

\* the handler of a GET endpoint, run on the cache and the tracker as they are
HandleGet(endpoint, path) ==
    IF endpoint = "health_check"
    THEN health_check(cache_workload, cache_prediction)
    ELSE IF endpoint = "get_team_workload"
    THEN get_team_workload(cache_workload, cache_prediction)
    ELSE IF endpoint = "get_member_workload"
    THEN get_member_workload(path[3], cache_workload, cache_prediction)
    ELSE IF endpoint = "get_overloaded_members"
    THEN get_overloaded_members(cache_workload, cache_prediction)
    ELSE IF endpoint = "get_rebalancing_suggestions"
    THEN get_rebalancing_suggestions(cache_workload, cache_prediction)
    ELSE get_current_sprint(tracker_tickets, cache_workload, cache_prediction)

\* the router's answer to a path without a route
NotFound == Served(cache_workload, cache_prediction, 404, <<"Not Found">>)

EndpointOf(route) == IF IsNone(route) THEN "" ELSE Val(route).endpoint

\* The response records the request, the endpoint that served it and the
\* tickets the tracker held while it was served; the handler's cache
\* entries are stored.
Respond(method, path, request, endpoint, served) ==
    /\ response' = Some([method |-> method, path |-> path, request |-> request,
                         endpoint |-> endpoint, status_code |-> served.status_code,
                         body |-> served.body, tickets |-> tracker_tickets])
    /\ cache_workload' = served.team_workload
    /\ cache_prediction' = served.sprint_prediction

\* a GET request: the router takes the first matching route
GetRequest ==
    /\ \E path \in GetPaths :
          LET route == FirstMatch(Routes, 1, "GET", path)
          IN  Respond("GET", path, NoneVal, EndpointOf(route),
                      IF IsNone(route) THEN NotFound
                      ELSE HandleGet(Val(route).endpoint, path))
    /\ UNCHANGED <<tracker_tickets, forecast_vars, workload_vars, balance_vars,
                   report_vars, risk_vars, stats_vars>>

WhatIfPath == <<Seg_api, Seg_sprint, Seg_what_if>>

\* a POST of a what-if request; the only POST route is run_what_if_scenario
PostWhatIf ==
    /\ \E request \in WhatIfRequests :
          LET route == FirstMatch(Routes, 1, "POST", WhatIfPath)
          IN  Respond("POST", WhatIfPath, Some(request), EndpointOf(route),
                      IF IsNone(route) THEN NotFound
                      ELSE run_what_if_scenario(request, tracker_tickets, cache_workload,
                                                cache_prediction))
    /\ UNCHANGED <<tracker_tickets, forecast_vars, workload_vars, balance_vars,
                   report_vars, risk_vars, stats_vars>>

NextApi == TrackerChange \/ GetRequest \/ PostWhatIf

SpecApi == InitApi /\ [][NextApi]_vars

(***************************************************************************)
(* Properties of the forecast                                              *)
(***************************************************************************)
InPercentRange(r) == RealLe(RealInt(0), r) /\ RealLe(r, RealInt(100))

\* C1 (as claimed): every completion_probability predict returns lies in [0, 100], in
\* both regimes, for the prediction itself and for the modified prediction
\* of a what-if scenario.
C1_ProbabilityInRange ==
    /\ ~IsNone(prediction) => InPercentRange(Val(prediction).completion_probability)
    /\ ~IsNone(scenario) =>
          InPercentRange(Val(scenario).modified_prediction.completion_probability)

\* the person owns a ticket that is not done and has positive story points
OwnsOpenWork(person_name) ==
    \E i \in DOMAIN tickets :
        /\ IsPersonTicket(tickets[i], person_name)
        /\ ~is_done(tickets[i])
        /\ PointsOr0(tickets[i]) > 0

IsRemoveScenario == ~IsNone(scenario) /\ Val(scenario).scenario_name.kind = "Remove"
IsAddScenario == ~IsNone(scenario) /\ Val(scenario).scenario_name.kind = "Add"

\* C2: removing a person who owns at least one open ticket with positive
\* story points never raises the completion probability: the modified
\* probability is at most the original one.
C2_RemoveNeverRaises ==
    (IsRemoveScenario /\ OwnsOpenWork(Val(scenario).scenario_name.person)) =>
        /\ Val(scenario).original_prediction = Val(prediction)
        /\ RealSign(probability_change(Val(scenario))) <= 0

\* a remove scenario for a person with open work whose tickets were rewritten,
\* in a sprint whose probability is strictly between 0 and 100
C2_Witness ==
    /\ IsRemoveScenario
    /\ OwnsOpenWork(Val(scenario).scenario_name.person)
    /\ ModifiedTickets(tickets, Val(scenario).scenario_name.person) # tickets
    /\ RealLt(RealInt(0), Val(prediction).completion_probability)
    /\ RealLt(Val(prediction).completion_probability, RealInt(100))

\* the ticket is not done and its assignee contains the name, ignoring case
OpenTicketOf(t, person_name) ==
    /\ ~is_done(t)
    /\ ~IsNone(t.assignee)
    /\ Contains(Lower(Val(t.assignee)), Lower(person_name))

\* the list `modified` is `original` with the person's open tickets replaced
\* by unassigned copies carrying one more "blocked" label
RewrittenFor(modified, original, person_name) ==
    /\ Len(modified) = Len(original)
    /\ \A i \in DOMAIN original :
          IF OpenTicketOf(original[i], person_name)
          THEN /\ modified[i].key = original[i].key
               /\ modified[i].status = original[i].status
               /\ modified[i].story_points = original[i].story_points
               /\ IsNone(modified[i].assignee)
               /\ modified[i].labels = Append(original[i].labels, S_blocked)
          ELSE modified[i] = original[i]

\* C15: a what_if_remove_person call leaves its inputs as they were, and the
\* list it forecasts is the input list with each not-done ticket of the
\* person replaced by an unassigned copy with one extra "blocked" label and
\* every other ticket passed through.
C15_RemoveRewritesOpenTicketsOnly ==
    [][ (IsNone(scenario) /\ ~IsNone(scenario') /\ Val(scenario').scenario_name.kind = "Remove")
          => LET person_name == Val(scenario').scenario_name.person
                 modified == ModifiedTickets(tickets, person_name)
             IN  /\ tickets' = tickets
                 /\ sprint' = sprint
                 /\ velocity_history' = velocity_history
                 /\ RewrittenFor(modified, tickets, person_name)
                 /\ Val(scenario').modified_prediction
                        = predict(sprint, modified, velocity_history, now) ]_vars

\* a remove scenario over a list holding an open ticket of the person, which
\* is rewritten, and a done ticket of the person, which is not
C15_Witness ==
    /\ IsRemoveScenario
    /\ \E i, j \in DOMAIN tickets :
          /\ OpenTicketOf(tickets[i], Val(scenario).scenario_name.person)
          /\ ModifiedTickets(tickets, Val(scenario).scenario_name.person)[i] # tickets[i]
          /\ is_done(tickets[j])
          /\ IsPersonTicket(tickets[j], Val(scenario).scenario_name.person)

\* C3 (as claimed): adding a positive number of points makes the completion
\* probability strictly lower than the original.
C3_AddScopeStrictlyLower ==
    IsAddScenario => RealSign(probability_change(Val(scenario))) < 0

\* the ten-day sprint of the healthy-sprint test: 10 of 15 points done, seven
\* days elapsed, the open tickets assigned and not blocked, velocity 15, 14, 16
HealthySprintInputs ==
    /\ sprint = Sprint(1, Some(0), Some(10 * TicksPerDay))
    /\ now \in {7 * TicksPerDay, 7 * TicksPerDay + 1}
    /\ SumPoints(tickets) = 15
    /\ SumPoints(SelectSeq(tickets, is_done)) = 10
    /\ \A i \in DOMAIN tickets :
          ~is_done(tickets[i]) =>
              ~IsNone(tickets[i].assignee) /\ ~is_blocked(tickets[i])
    /\ velocity_history = <<15, 14, 16>>

\* C4 (as claimed): the on-track sprint is predicted with a probability above
\* 0 and a risk level of LOW or MEDIUM.
C4_HealthySprintLowRisk ==
    (HealthySprintInputs /\ ~IsNone(prediction)) =>
        /\ RealLt(RealInt(0), Val(prediction).completion_probability)
        /\ Val(prediction).risk_level \in {"LOW", "MEDIUM"}

\* sprint progress as predict computes it, from the inputs
ProgressOf(s, clock) ==
    LET total_days == Days(Val(s.end_date) - Val(s.start_date))
    IN  IF IsNone(s.start_date) \/ IsNone(s.end_date) THEN Rat(1, 2)
        ELSE IF total_days > 0
             THEN Rat(total_days - days_remaining(s, clock), total_days)
        ELSE RatInt(0)

\* predicted completion of the history-backed regime: done + mean / 10 * days left
HistoryBackedPoints(p) ==
    RatAdd(RatInt(p.completed_points),
           Rat(SumSeq(velocity_history) * p.days_remaining, 10 * Len(velocity_history)))

\* predicted completion of the linear projection: done / progress, or the total
\* at progress 0
LinearPoints(p) ==
    IF RatLt(RatInt(0), ProgressOf(sprint, now))
    THEN RatDiv(RatInt(p.completed_points), ProgressOf(sprint, now))
    ELSE RatInt(p.total_points)

\* C5: with at least 3 velocity records the forecast is the history-backed
\* one (done + mean / 10 per remaining day), with fewer it is the linear
\* projection; the example total 15, done 10, history 15, 14, 16, 3 days
\* left is forecast at 10 + 1.5 * 3 = 14.5 points.
C5_RegimeByHistoryLength ==
    ~IsNone(prediction) =>
        LET p == Val(prediction) IN
        /\ Len(velocity_history) >= 3 =>
              p.predicted_completion_points
                  = RatMin(HistoryBackedPoints(p), RatInt(p.total_points))
        /\ Len(velocity_history) < 3 =>
              p.predicted_completion_points
                  = RatMin(LinearPoints(p), RatInt(p.total_points))
        /\ (HealthySprintInputs /\ p.days_remaining = 3) =>
              p.predicted_completion_points = Rat(29, 2)

\* the example, where the two regimes give different forecasts
C5_Witness ==
    /\ ~IsNone(prediction)
    /\ HealthySprintInputs
    /\ Val(prediction).days_remaining = 3
    /\ Val(prediction).total_points = 15
    /\ Val(prediction).completed_points = 10
    /\ RatMin(LinearPoints(Val(prediction)), RatInt(15)) # Rat(29, 2)

\* the sprint has both dates and they are less than a day apart
ZeroTotalDays ==
    /\ ~IsNone(sprint.start_date) /\ ~IsNone(sprint.end_date)
    /\ Days(Val(sprint.end_date) - Val(sprint.start_date)) = 0

\* C14 (as claimed, forecast side): no zero denominator raises.  A prediction
\* with zero total points has completion percentage 0, and
\* Sprint.progress_percentage raises nothing and is 0 for a sprint whose
\* start and end coincide.
C14_NoZeroDenominatorError ==
    /\ ~IsNone(prediction) =>
          (Val(prediction).total_points = 0
              => completion_percentage(Val(prediction)) = RatInt(0))
    /\ ~IsNone(progress) =>
          /\ Val(progress).raised = ""
          /\ ZeroTotalDays => Val(progress).value = RatInt(0)

Clamp0To100(r) == RealMax(RealInt(0), RealMin(RealInt(100), r))

\* the two-regime reference of the completion probability, from the inputs
ReferenceProbability(p) ==
    LET stats == calculate_velocity_stats(velocity_history)
        z == RatDivSqrt(RatSub(RatInt(p.remaining_points),
                               RatMul(RatDiv(stats.average, RatInt(10)),
                                      RatInt(p.days_remaining))),
                        stats.std_dev)
        progress_fraction == ProgressOf(sprint, now)
    IN  IF Len(velocity_history) >= 3
        THEN IF RealSign(stats.std_dev) = 0 THEN RealInt(50)
             ELSE Clamp0To100(RealSub(RealInt(50), RealScale(RatInt(25), z)))
        ELSE IF progress_fraction = RatInt(0) THEN RealInt(50)
        ELSE IF p.total_points = 0 THEN RealInt(100)
        ELSE Clamp0To100(Real(RatMul(RatDiv(RatDiv(RatInt(p.completed_points),
                                                   progress_fraction),
                                            RatInt(p.total_points)),
                                     RatInt(100))))

\* C16 (as claimed): the completion probability predict returns equals the
\* two-regime reference: with 3 or more velocity records 50 at std-dev 0 and
\* clamp(50 - 25 z, 0, 100) otherwise; with fewer, 50 at progress 0, else 100
\* at total 0, else clamp((done / progress) / total * 100, 0, 100).
C16_ProbabilityIsReference ==
    ~IsNone(prediction) =>
        RealEq(Val(prediction).completion_probability,
               ReferenceProbability(Val(prediction)))

\* the risk score of a ticket of the sprint under forecast
ScoreOf(t) ==
    assess_ticket_risk(t, days_remaining(sprint, now), ProgressOf(sprint, now)).risk_score

OpenTickets == { i \in DOMAIN tickets : ~is_done(tickets[i]) }

\* the tickets the at-risk list names
ListedTickets(p) ==
    { i \in DOMAIN tickets :
        \E j \in DOMAIN p.at_risk_tickets : p.at_risk_tickets[j].ticket_key = tickets[i].key }

\* C19: the at-risk list has at most 5 entries, each the risk of a not-done
\* ticket scoring 40 or more, in non-increasing score order, and no not-done
\* ticket left out scores higher than a listed one.
C19_AtRiskTopFive ==
    ~IsNone(prediction) =>
        LET p == Val(prediction)
            listed == p.at_risk_tickets
        IN  /\ Len(listed) <= 5
            /\ \A j \in DOMAIN listed :
                  /\ listed[j].risk_score >= 40
                  /\ RiskLevelOfScore(listed[j].risk_score) # "LOW"
                  /\ \E i \in OpenTickets :
                        /\ tickets[i].key = listed[j].ticket_key
                        /\ ScoreOf(tickets[i]) = listed[j].risk_score
            /\ \A j, k \in DOMAIN listed :
                  j < k => listed[j].risk_score >= listed[k].risk_score
            /\ \A i \in OpenTickets \ ListedTickets(p) :
                  \A j \in DOMAIN listed : ScoreOf(tickets[i]) <= listed[j].risk_score

\* six not-done tickets score 40 or more with different scores among them:
\* five are listed and one is left out
C19_Witness ==
    /\ ~IsNone(prediction)
    /\ Cardinality({ i \in OpenTickets : ScoreOf(tickets[i]) >= 40 }) = 6
    /\ Len(Val(prediction).at_risk_tickets) = 5
    /\ \E i, j \in OpenTickets : ScoreOf(tickets[i]) < ScoreOf(tickets[j])
    /\ ScoreOf(tickets[1]) < ScoreOf(tickets[6])

\* the not-done tickets scoring at least `score`
OpenTicketsScoring(score) == { i \in OpenTickets : ScoreOf(tickets[i]) >= score }

\* the tier the claim's rule gives for a probability and the open tickets
ClaimedRiskLevel(probability) ==
    IF RealLt(probability, RealInt(50)) \/ OpenTicketsScoring(80) # {} THEN "CRITICAL"
    ELSE IF RealLt(probability, RealInt(70)) \/ Cardinality(OpenTicketsScoring(60)) >= 2
    THEN "HIGH"
    ELSE IF RealLt(probability, RealInt(85)) THEN "MEDIUM"
    ELSE "LOW"

\* C20: the risk level of a prediction is CRITICAL iff the probability is
\* below 50 or a not-done ticket scores 80 or more; otherwise HIGH iff it is
\* below 70 or two or more not-done tickets score 60 or more; otherwise
\* MEDIUM iff it is below 85; otherwise LOW.
C20_RiskLevelTiers ==
    ~IsNone(prediction) =>
        Val(prediction).risk_level
            = ClaimedRiskLevel(Val(prediction).completion_probability)

\* a prediction that is HIGH only because two tickets score 60 or more
C20_Witness ==
    /\ ~IsNone(prediction)
    /\ Val(prediction).risk_level = "HIGH"
    /\ ~RealLt(Val(prediction).completion_probability, RealInt(70))
    /\ Cardinality(OpenTicketsScoring(60)) = 2

\* C23 (as claimed): in every prediction the predicted completion points lie
\* in 0..total_points, the predicted remaining points are not negative, the
\* two add up to total_points, and remaining_points is total_points less
\* completed_points, a ticket without story points counting 0.
C23_PredictedPointsWithinTotal ==
    ~IsNone(prediction) =>
        LET p == Val(prediction) IN
        /\ RatLe(RatInt(0), p.predicted_completion_points)
        /\ RatLe(p.predicted_completion_points, RatInt(p.total_points))
        /\ RatLe(RatInt(0), p.predicted_remaining_points)
        /\ RatAdd(p.predicted_completion_points, p.predicted_remaining_points)
              = RatInt(p.total_points)
        /\ p.total_points = SumSeq([i \in DOMAIN tickets |-> PointsOr0(tickets[i])])
        /\ p.remaining_points = p.total_points - p.completed_points

\* the tickets a remove scenario for the person replaced by a copy
ModifiedBy(person_name) ==
    { i \in DOMAIN tickets : ModifiedTickets(tickets, person_name)[i] # tickets[i] }

\* C24 (as claimed): the ticket count in the impact description of a remove
\* scenario is the number of tickets the scenario modified, the person's
\* not-done tickets, and the points are the story points of those tickets.
C24_ImpactCountsModifiedTickets ==
    IsRemoveScenario =>
        LET person_name == Val(scenario).scenario_name.person
            open_tickets == { i \in DOMAIN tickets : OpenTicketOf(tickets[i], person_name) }
            impact == Val(scenario).impact_description
        IN  /\ ModifiedBy(person_name) = open_tickets
            /\ impact.tickets = Cardinality(open_tickets)
            /\ impact.points
                  = SumSeq([i \in DOMAIN tickets |->
                               IF i \in open_tickets THEN PointsOr0(tickets[i]) ELSE 0])

\* the point totals and the forecast of a prediction
TotalsAndForecast(p) ==
    <<p.total_points, p.completed_points, p.in_progress_points, p.remaining_points,
      p.predicted_completion_points, p.completion_probability>>

\* C27: the modified prediction of a remove scenario has the total,
\* completed, in-progress and remaining points, the predicted completion
\* points and the completion probability of predict on the original tickets
\* (the prediction the scenario was given as its original).
C27_RemoveKeepsTotalsAndForecast ==
    IsRemoveScenario =>
        /\ Val(prediction) = predict(sprint, tickets, velocity_history, now)
        /\ TotalsAndForecast(Val(scenario).modified_prediction)
              = TotalsAndForecast(Val(prediction))

\* a remove scenario that rewrote a ticket in progress with story points and
\* whose modified prediction differs from the original
C27_Witness ==
    /\ IsRemoveScenario
    /\ \E i \in ModifiedBy(Val(scenario).scenario_name.person) :
          is_in_progress(tickets[i]) /\ PointsOr0(tickets[i]) > 0
    /\ Val(scenario).modified_prediction # Val(prediction)

\* every ticket of the sprint is done and the total of the points is positive
AllTicketsDone ==
    /\ \A i \in DOMAIN tickets : is_done(tickets[i])
    /\ SumPoints(tickets) > 0

C25_ProgressWithinUnitInterval ==
    (~IsNone(prediction) /\ ~IsNone(sprint.start_date) /\ ~IsNone(sprint.end_date)) =>
        /\ RatLe(RatInt(0), ProgressOf(sprint, now))
        /\ RatLe(ProgressOf(sprint, now), RatInt(1))
        /\ Val(prediction).days_elapsed >= 0

(***************************************************************************)
(* Properties of the workload analysis                                     *)
(***************************************************************************)
Members == Val(summary).members

ZeroActivity(m) ==
    /\ m.github_open_prs = 0 /\ m.github_pending_reviews = 0
    /\ m.github_assigned_issues = 0 /\ m.github_recent_commits = 0
    /\ m.jira_story_points = 0 /\ m.jira_tickets_in_progress = 0
    /\ m.jira_tickets_blocked = 0 /\ m.meeting_hours_this_week = 0

CeilingsPositive(w) ==
    /\ w.max_open_prs > 0 /\ w.max_pending_reviews > 0 /\ w.max_assigned_issues > 0
    /\ w.max_story_points > 0 /\ w.max_meeting_hours > 0

\* C6: with all five ceilings positive, a member with zero activity in every
\* source, or absent from every source, has workload_percentage exactly 0.
C6_ZeroActivityZeroPercent ==
    (~IsNone(summary) /\ CeilingsPositive(weights)) =>
        \A i \in DOMAIN Members :
            ZeroActivity(Members[i]) => Members[i].workload_percentage = RatInt(0)

\* a summary that holds a member found in a source with zero counts, and a
\* member found in no source
C6_Witness ==
    /\ ~IsNone(summary)
    /\ CeilingsPositive(weights)
    /\ \E i \in DOMAIN Members :
          /\ ZeroActivity(Members[i])
          /\ \E k \in DOMAIN github_data : github_data[k].login = Lower(Members[i].name)
    /\ \E i \in DOMAIN Members :
          /\ ZeroActivity(Members[i])
          /\ Lower(Members[i].name) \notin UnionNames(github_data, jira_data, calendar_data)

\* the sum of ceiling * weight over the five signals that have a ceiling
FiveCeilingMax(w) ==
    RatAdd(RatAdd(RatMul(RatInt(w.max_open_prs), w.github_open_prs),
                  RatMul(RatInt(w.max_pending_reviews), w.github_pending_reviews)),
           RatAdd(RatMul(RatInt(w.max_assigned_issues), w.github_assigned_issues),
                  RatAdd(RatMul(RatInt(w.max_story_points), w.jira_story_points),
                         RatMul(RatInt(w.max_meeting_hours), w.meeting_hours))))

AtCeilings(m, w) ==
    /\ m.github_open_prs = w.max_open_prs
    /\ m.github_pending_reviews = w.max_pending_reviews
    /\ m.github_assigned_issues = w.max_assigned_issues
    /\ m.jira_story_points = w.max_story_points
    /\ m.meeting_hours_this_week = w.max_meeting_hours
    /\ m.github_recent_commits = 0
    /\ m.jira_tickets_in_progress = 0
    /\ m.jira_tickets_blocked = 0

\* the worked example: 3 open PRs, 5 pending reviews, 4 issues, 10 commits
IsExampleMember(m) ==
    /\ m.github_open_prs = 3 /\ m.github_pending_reviews = 5
    /\ m.github_assigned_issues = 4 /\ m.github_recent_commits = 10
    /\ m.jira_story_points = 0 /\ m.jira_tickets_in_progress = 0
    /\ m.jira_tickets_blocked = 0 /\ m.meeting_hours_this_week = 0

\* percentage * max = 100 * score, max being the five-ceiling sum, and the
\* worked example is 32 of 74, HEALTHY
PercentageIsScoreOverMax ==
    \A i \in DOMAIN Members :
        /\ RatMul(Members[i].workload_percentage, FiveCeilingMax(weights))
              = RatMul(RatInt(100), Members[i].workload_score)
        /\ (IsExampleMember(Members[i]) /\ weights = DefaultWeights) =>
              /\ Members[i].workload_score = RatInt(32)
              /\ Members[i].workload_percentage = Rat(3200, 74)
              /\ status(Members[i]) = "HEALTHY"

\* C7 (as claimed): percentage is score / max * 100 over the five-ceiling
\* maximum, and a member whose five ceiling-bearing signals equal their
\* ceilings, with no commits and no in-progress or blocked tickets, scores
\* exactly 100.
C7_AtCeilingsScores100 ==
    ~IsNone(summary) =>
        /\ PercentageIsScoreOverMax
        /\ \A i \in DOMAIN Members :
              AtCeilings(Members[i], weights) =>
                  Members[i].workload_percentage = RatInt(100)

\* C7 (amended): the same, the member at the ceilings scoring exactly 100
\* when the maximum score is positive.
C7_AtCeilingsScores100WhenMaxPositive ==
    ~IsNone(summary) =>
        /\ PercentageIsScoreOverMax
        /\ \A i \in DOMAIN Members :
              (AtCeilings(Members[i], weights)
               /\ RatLt(RatInt(0), FiveCeilingMax(weights))) =>
                  Members[i].workload_percentage = RatInt(100)

\* a member at all five ceilings under the default weights
C7_Witness ==
    /\ ~IsNone(summary)
    /\ weights = DefaultWeights
    /\ \E i \in DOMAIN Members :
          /\ AtCeilings(Members[i], weights)
          /\ Members[i].workload_score = RatInt(74)

StatusByThresholds(m) ==
    IF RatLt(m.workload_percentage, RatInt(80)) THEN "HEALTHY"
    ELSE IF RatLt(m.workload_percentage, RatInt(100)) THEN "AT_CAPACITY"
    ELSE "OVERLOADED"

\* C8: a member is HEALTHY below 80, AT_CAPACITY from 80 up to but not
\* including 100 and OVERLOADED from 100 on, and the three counts of a summary
\* add up to its team size.
C8_StatusPartition ==
    ~IsNone(summary) =>
        /\ \A i \in DOMAIN Members : status(Members[i]) = StatusByThresholds(Members[i])
        /\ healthy_count(Val(summary)) + at_capacity_count(Val(summary))
              + overloaded_count(Val(summary)) = team_size(Val(summary))

\* a summary with a member of each status, one of them at exactly 100
C8_Witness ==
    /\ ~IsNone(summary)
    /\ healthy_count(Val(summary)) > 0
    /\ at_capacity_count(Val(summary)) > 0
    /\ overloaded_count(Val(summary)) > 0
    /\ \E i \in DOMAIN Members : Members[i].workload_percentage = RatInt(100)

RECURSIVE SelectIdx(_, _, _)
\* the indices from i to n, ascending, whose flag in keep is set
SelectIdx(n, keep, i) ==
    IF i > n THEN <<>>
    ELSE IF keep[i] THEN <<i>> \o SelectIdx(n, keep, i + 1)
    ELSE SelectIdx(n, keep, i + 1)

\* the members at or above the threshold, in the summary's order
AtOrAbove(threshold) ==
    LET idx == SelectIdx(Len(Members),
                         [i \in DOMAIN Members |->
                             ~RatLt(Members[i].workload_percentage, threshold)], 1)
    IN  [k \in DOMAIN idx |-> Members[idx[k]]]

\* a is b with some entries left out
IsSubList(a, b) ==
    \E f \in [DOMAIN a -> DOMAIN b] :
        /\ \A k \in DOMAIN a : a[k] = b[f[k]]
        /\ \A k, l \in DOMAIN a : k < l => f[k] < f[l]

\* C9: identify_overloaded returns exactly the members at or above the
\* threshold, in the summary's order, and the result for a higher threshold
\* is a sub-list of the result for a lower one.
C9_IdentifyOverloaded ==
    ~IsNone(overloaded) =>
        /\ Val(overloaded).members = AtOrAbove(Val(overloaded).threshold)
        /\ \A t \in Thresholds :
              RatLe(Val(overloaded).threshold, t) =>
                  /\ IsSubList(identify_overloaded(Val(summary), t), Val(overloaded).members)
                  /\ Len(identify_overloaded(Val(summary), t)) <= Len(Val(overloaded).members)

\* the default threshold with a member at exactly 100, one above and one below
C9_Witness ==
    /\ ~IsNone(overloaded)
    /\ Val(overloaded).threshold = RatInt(100)
    /\ Len(Val(overloaded).members) = 2
    /\ Len(Members) = 3
    /\ \E i \in DOMAIN Members : Members[i].workload_percentage = RatInt(100)
    /\ Len(identify_overloaded(Val(summary), RatInt(110))) = 1

\* C10: the members of the summary analyze returns are in non-increasing
\* order of percentage, and members of equal percentage are in the order in
\* which the roster was iterated.
C10_SortedStable ==
    ~IsNone(summary) =>
        /\ \A k, l \in DOMAIN Members :
              k < l => RatLe(Members[l].workload_percentage, Members[k].workload_percentage)
        /\ \E pos \in [DOMAIN Members -> DOMAIN names_order] :
              /\ \A k, l \in DOMAIN Members : k # l => pos[k] # pos[l]
              /\ \A k \in DOMAIN Members : Members[k].name = names_order[pos[k]]
              /\ \A k, l \in DOMAIN Members :
                    (k < l /\ Members[k].workload_percentage = Members[l].workload_percentage)
                        => pos[k] < pos[l]

\* two members tie and a more loaded one, iterated between them, was moved
\* in front of both
C10_Witness ==
    /\ ~IsNone(summary)
    /\ Len(Members) = 3
    /\ Members[2].workload_percentage = Members[3].workload_percentage
    /\ Members[2].name = names_order[1]
    /\ Members[3].name = names_order[3]
    /\ Members[1].name = names_order[2]
    /\ RatLt(Members[2].workload_percentage, Members[1].workload_percentage)

\* the lower-cased names found in any of the three sources
SourceNames ==
    {Lower(github_data[i].login) : i \in DOMAIN github_data}
    \cup {Lower(jira_data[i].display_name) : i \in DOMAIN jira_data}
    \cup {Lower(calendar_data[i].user) : i \in DOMAIN calendar_data}

\* one member per roster entry, under the entry's name, and no other member
OneMemberPerRosterEntry ==
    /\ Len(Members) = Len(Val(team_members))
    /\ \E pos \in [DOMAIN Members -> DOMAIN Val(team_members)] :
          /\ \A k, l \in DOMAIN Members : k # l => pos[k] # pos[l]
          /\ \A k \in DOMAIN Members : Members[k].name = Val(team_members)[pos[k]]

\* one member per distinct lower-cased name of the sources
OneMemberPerSourceName ==
    /\ Len(Members) = Cardinality(SourceNames)
    /\ {Members[k].name : k \in DOMAIN Members} = SourceNames

\* the last index of a set of indices
LastOf(hits) == CHOOSE i \in hits : \A k \in hits : k <= i

\* the member's metrics are those of the records keyed by its name, ignoring
\* case (the last one when a source has several), and 0 without a record
MetricsJoined(m) ==
    LET gh == {i \in DOMAIN github_data : Lower(github_data[i].login) = Lower(m.name)}
        ji == {i \in DOMAIN jira_data : Lower(jira_data[i].display_name) = Lower(m.name)}
        ca == {i \in DOMAIN calendar_data : Lower(calendar_data[i].user) = Lower(m.name)}
    IN  /\ IF gh = {}
           THEN /\ m.github_open_prs = 0 /\ m.github_pending_reviews = 0
                /\ m.github_assigned_issues = 0 /\ m.github_recent_commits = 0
           ELSE /\ m.github_open_prs = github_data[LastOf(gh)].open_prs
                /\ m.github_pending_reviews = github_data[LastOf(gh)].pending_reviews
                /\ m.github_assigned_issues = github_data[LastOf(gh)].assigned_issues
                /\ m.github_recent_commits = github_data[LastOf(gh)].recent_commits
        /\ IF ji = {}
           THEN /\ m.jira_story_points = 0 /\ m.jira_tickets_in_progress = 0
                /\ m.jira_tickets_blocked = 0
           ELSE /\ m.jira_story_points = total_story_points(jira_data[LastOf(ji)])
                /\ m.jira_tickets_in_progress = tickets_in_progress(jira_data[LastOf(ji)])
                /\ m.jira_tickets_blocked = tickets_blocked(jira_data[LastOf(ji)])
        /\ IF ca = {}
           THEN /\ m.meeting_hours_this_week = 0 /\ IsNone(m.email)
                /\ m.pto_days_upcoming = 0 /\ IsNone(m.next_pto_date)
           ELSE /\ m.meeting_hours_this_week = calendar_data[LastOf(ca)].meeting_hours_this_week
                /\ m.email = Some(calendar_data[LastOf(ca)].email)

\* C11 (as claimed): with a roster supplied the summary has exactly one member
\* per roster entry and no others, without one it has exactly one member per
\* distinct lower-cased name of the sources; in both cases each member's
\* metrics are those of the records keyed by its name ignoring case, 0 for a
\* source without such a record.
C11_RosterOrUnion ==
    ~IsNone(summary) =>
        /\ IF ~IsNone(team_members) THEN OneMemberPerRosterEntry
           ELSE OneMemberPerSourceName
        /\ \A k \in DOMAIN Members : MetricsJoined(Members[k])

\* C11 (amended): the same, an empty roster counting as no roster.
C11_NonEmptyRosterOrUnion ==
    ~IsNone(summary) =>
        /\ IF ~IsNone(team_members) /\ Val(team_members) # <<>>
           THEN OneMemberPerRosterEntry
           ELSE OneMemberPerSourceName
        /\ \A k \in DOMAIN Members : MetricsJoined(Members[k])

\* a roster with an entry joined to a source record under another case, an
\* entry found in no source, and a source record of a person not on the roster
C11_Witness ==
    /\ ~IsNone(summary)
    /\ ~IsNone(team_members) /\ Val(team_members) # <<>>
    /\ \E k \in DOMAIN Members :
          /\ Members[k].name # Lower(Members[k].name)
          /\ Members[k].github_open_prs > 0
    /\ \E k \in DOMAIN Members : Lower(Members[k].name) \notin SourceNames
    /\ \E n \in SourceNames : \A k \in DOMAIN Members : Lower(Members[k].name) # n

\* the members of the summary with a status, by position
MembersWithStatus(st) ==
    { i \in DOMAIN Val(summary).members : status(Val(summary).members[i]) = st }

\* member i's percentage is more than 30 above member j's
GapAbove30(i, j) ==
    LET m == Val(summary).members
    IN  RatLt(RatInt(30), RatSub(m[i].workload_percentage, m[j].workload_percentage))

\* the healthy members more than 30 below overloaded member i
TargetsOf(i) == { j \in MembersWithStatus("HEALTHY") : GapAbove30(i, j) }

\* the overloaded members that have a target, in summary order
SuggestingMembers ==
    SelectIdx(Len(Val(summary).members),
              [i \in DOMAIN Val(summary).members |->
                  i \in MembersWithStatus("OVERLOADED") /\ TargetsOf(i) # {}],
              1)

MinOf(S) == CHOOSE x \in S : \A y \in S : x <= y

\* C21: one suggestion for each overloaded member that has a healthy member
\* more than 30 below it and none for the others; each goes from that
\* overloaded member to the first such healthy member in summary order.
C21_OneSuggestionPerOverloaded ==
    ~IsNone(suggestions) =>
        LET m == Val(summary).members
            sg == Val(suggestions)
            from == SuggestingMembers
        IN  /\ Len(sg) = Len(from)
            /\ Len(sg) <= Cardinality(MembersWithStatus("OVERLOADED"))
            /\ \A k \in DOMAIN sg :
                  LET i == from[k]
                      j == MinOf(TargetsOf(i))
                  IN  /\ sg[k].from = m[i].name
                      /\ sg[k].to = m[j].name
                      /\ status(m[i]) = "OVERLOADED" /\ status(m[j]) = "HEALTHY"
                      /\ GapAbove30(i, j)

\* an overloaded member whose target is not the first healthy member: one
\* healthy member before it is exactly 30 below, which is not enough
C21_Witness ==
    /\ ~IsNone(suggestions)
    /\ Len(Val(suggestions)) = 1
    /\ \E i \in MembersWithStatus("OVERLOADED") :
          /\ TargetsOf(i) # {}
          /\ MinOf(TargetsOf(i)) # MinOf(MembersWithStatus("HEALTHY"))
    /\ \E i \in MembersWithStatus("OVERLOADED"), j \in MembersWithStatus("HEALTHY") :
          RatSub(Val(summary).members[i].workload_percentage,
                 Val(summary).members[j].workload_percentage) = RatInt(30)

(***************************************************************************)
(* Properties of the balance check                                         *)
(***************************************************************************)
AllEqual(ps) == \A i, j \in DOMAIN ps : ps[i] = ps[j]

\* ps with its entries in the order q
Permuted(ps, q) == [i \in DOMAIN ps |-> ps[q[i]]]

\* C12 (as claimed): workload_variance is 0 when all members have the same
\* percentage or there are fewer than 2 members, it is the same for every
\* order of the members, and is_balanced is true exactly when it is below 30.
C12_VarianceZeroSymmetricBalanced ==
    /\ ~IsNone(variance) =>
          /\ (Len(percentages) < 2 \/ AllEqual(percentages)) => FIsZero(Val(variance))
          /\ \A q \in Permutations(DOMAIN percentages) :
                workload_variance(Permuted(percentages, q), sum_compensated)
                    = workload_variance(percentages, sum_compensated)
    /\ ~IsNone(balanced) => (Val(balanced) <=> FLt(Val(variance), FOfInt(30)))

(***************************************************************************)
(* Properties of the Visualizer                                            *)
(***************************************************************************)
\* the format selectors each report operation's signature lists
SupportedFormats(operation) ==
    IF operation = "team_report" THEN { "text", "slack", "html" } ELSE { "text", "slack" }

\* C13 (as claimed): team_report, sprint_report and workload_alert raise an
\* error for a format selector outside their supported set; none of them
\* returns a report in another format instead.
C13_UnsupportedFormatRejected ==
    ~IsNone(report) =>
        (Val(report).format \notin SupportedFormats(Val(report).operation)
            => Val(report).outcome.raised = "ValueError")

(***************************************************************************)
(* Properties of the per-ticket risk assessment                            *)
(***************************************************************************)
\* the status is to-do, backlog or open, in any letter case
NotStartedTicket(t) ==
    \/ Lower(t.status) = <<"t","o"," ","d","o">>
    \/ Lower(t.status) = <<"b","a","c","k","l","o","g">>
    \/ Lower(t.status) = <<"o","p","e","n">>

BlockedTicket(t) ==
    \/ Contains(Lower(t.status), <<"b","l","o","c","k","e","d">>)
    \/ \E i \in DOMAIN t.labels : Lower(t.labels[i]) = <<"b","l","o","c","k","e","d">>

UnassignedTicket(t) == IsNone(t.assignee) \/ Val(t.assignee) = <<>>

LargeTicket(t) == ~IsNone(t.story_points) /\ Val(t.story_points) >= 5

\* the points each rule of the table adds for the ticket under assessment
RulePoints ==
    LET t == Val(risk_ticket) IN
    << IF NotStartedTicket(t) /\ RatLt(Rat(1, 2), risk_progress) THEN 40 ELSE 0,
       IF NotStartedTicket(t) /\ RatLt(Rat(3, 4), risk_progress) THEN 20 ELSE 0,
       IF LargeTicket(t) /\ risk_days < 3 THEN 30
       ELSE IF LargeTicket(t) /\ risk_days < 5 THEN 15 ELSE 0,
       IF BlockedTicket(t) THEN 50 ELSE 0,
       IF UnassignedTicket(t) THEN 20 ELSE 0 >>

FiredRules == Cardinality({ i \in DOMAIN RulePoints : RulePoints[i] > 0 })

\* C17: the risk score is the sum of the rules that fire, capped at 100, one
\* risk factor is recorded per fired rule, and the score is within 0..100.
C17_ScoreIsCappedSumOfRules ==
    ~IsNone(ticket_risk) =>
        LET r == Val(ticket_risk)
            total == SumSeq(RulePoints)
        IN  /\ r.risk_score = (IF total < 100 THEN total ELSE 100)
            /\ Len(r.risk_factors) = FiredRules
            /\ r.risk_score >= 0 /\ r.risk_score <= 100

\* every rule fires at once and the sum, 160, is capped
C17_Witness ==
    /\ ~IsNone(ticket_risk)
    /\ FiredRules = 5
    /\ SumSeq(RulePoints) = 160
    /\ Val(ticket_risk).risk_score = 100

\* C18 (as claimed): a recommendation is set exactly when the score is 60 or
\* more, and it is chosen by priority: blocked, else unassigned, else not
\* started (to-do, backlog or open), else monitor.
C18_RecommendationByPriority ==
    ~IsNone(ticket_risk) =>
        LET r == Val(ticket_risk)
            t == Val(risk_ticket)
        IN  /\ IsNone(r.recommendation) <=> r.risk_score < 60
            /\ ~IsNone(r.recommendation) =>
                  Val(r.recommendation) =
                      (IF BlockedTicket(t) THEN "Unblock immediately or move to next sprint"
                       ELSE IF UnassignedTicket(t) THEN "Assign to team member with capacity"
                       ELSE IF NotStartedTicket(t) THEN "Consider descoping to next sprint"
                       ELSE "Monitor closely, may need descoping")

(***************************************************************************)
(* Properties of the velocity statistics                                   *)
(***************************************************************************)
\* the means of the first n div 2 records and of the rest
FirstHalfMean == Rat(SumSeq(SubSeq(stats_history, 1, Len(stats_history) \div 2)),
                     Len(stats_history) \div 2)
SecondHalfMean ==
    Rat(SumSeq(SubSeq(stats_history, (Len(stats_history) \div 2) + 1, Len(stats_history))),
        Len(stats_history) - (Len(stats_history) \div 2))

\* C22 (as claimed): the trend is unknown below 4 records; from 4 on it is
\* improving iff the second-half mean is above 1.1 times the first-half mean,
\* declining iff it is below 0.9 times it, and stable otherwise.
C22_TrendByHalves ==
    ~IsNone(velocity_stats) =>
        Val(velocity_stats).trend =
            (IF Len(stats_history) < 4 THEN "unknown"
             ELSE IF RatLt(RatMul(FirstHalfMean, Rat(11, 10)), SecondHalfMean) THEN "improving"
             ELSE IF RatLt(SecondHalfMean, RatMul(FirstHalfMean, Rat(9, 10))) THEN "declining"
             ELSE "stable")

(***************************************************************************)
(* Properties of the API                                                   *)
(***************************************************************************)
AnsweredBy(endpoint) == ~IsNone(response) /\ Val(response).endpoint = endpoint

\* C26 (as claimed): in every scenario the what-if endpoint returns, the
\* original prediction is the forecast of the sprint, tickets and velocity
\* history the modified prediction was made from, however the fetches of
\* /api/sprint/current, the tracker changes and the what-if requests
\* interleave.
C26_ScenarioPairsSameSnapshot ==
    (AnsweredBy("run_what_if_scenario") /\ Val(response).status_code = 200) =>
        Val(response).body.original_prediction
            = predict(ApiSprint, Val(response).tickets, ApiVelocity, ApiClock)

\* C29 (as claimed): a what-if request that is neither remove_person with a
\* person name nor add_scope with additional points is answered 400.
C29_InvalidScenarioAnswered400 ==
    (AnsweredBy("run_what_if_scenario")
       /\ ~IsRemoveRequest(Val(Val(response).request))
       /\ ~IsAddRequest(Val(Val(response).request)))
        => Val(response).status_code = 400

\* C30 (as claimed): a GET of /api/workload/overloaded is handled by
\* get_overloaded_members and a GET of /api/workload/suggestions by
\* get_rebalancing_suggestions, neither by the member lookup.
C30_SpecificRoutesReached ==
    (~IsNone(response) /\ Val(response).method = "GET") =>
        /\ Val(response).path = <<Seg_api, Seg_workload, Seg_overloaded>>
              => Val(response).endpoint = "get_overloaded_members"
        /\ Val(response).path = <<Seg_api, Seg_workload, Seg_suggestions>>
              => Val(response).endpoint = "get_rebalancing_suggestions"

====
